---------------------------- MODULE Spec2Model ----------------------------
(***************************************************************************)
(* Model of the slice-acquisition solver of NiftyMIC:                      *)
(*   src/src/py/reconstruction/solver/Solver.py           (class Solver)   *)
(*   src/src/py/volumetricreconstruction/reconstruction/solver/            *)
(*       TikhonovSolver.py                          (class TikhonovSolver) *)
(* Images are records [size, geom, pix] with pix a function of the ITK     *)
(* index <<i, j, k>> (i fastest); numpy arrays are records [shape, el]     *)
(* with el a function of the numpy index (last axis fastest); flat vectors *)
(* are sequences.  Intensities are integers.                               *)
(***************************************************************************)
EXTENDS Integers, Sequences, FiniteSets, TLC

VARIABLES
    \* ---- Solver object (Solver.__init__) ----
    stacks,                  \* self._stacks
    HR_volume,               \* self._HR_volume / self._reconstruction
    deconvolution_mode,      \* self._deconvolution_mode
    predefined_covariance,   \* self._predefined_covariance
    alpha_cut,               \* self._alpha_cut
    filter_oriented_Gaussian,          \* forward engine configuration
    filter_adjoint_oriented_Gaussian,  \* adjoint engine configuration
    N_total_slice_voxels,    \* self._N_total_slice_voxels
    N_voxels_HR_volume,      \* self._N_voxels_HR_volume
    \* ---- settings ----
    alpha,                   \* self._alpha, in hundredths
    iter_max, minimizer, data_loss, reg_type,
    \* ---- a run of TikhonovSolver._run_reconstruction ----
    pc,                      \* position of the run
    solver,                  \* the numerical solver object of the run
    diag,                    \* diagnostics printed by the run
    runStart,                \* what the solver object held when the run began
    raised,                  \* the exception the last operation raised, or None
    \* ---- statistics ----
    residual_ell2,           \* self._residual_ell2
    residual_prior,          \* self._residual_prior
    \* ---- records of the last operator calls ----
    lastMA, lastAdj, lastMy,
    \* ---- vector/image conversion ----
    conv,
    \* ---- StackRegistrationBase object ----
    self_stack,              \* self._stack
    N_slices,                \* self._N_slices
    reference,               \* self._reference
    initializer_type,        \* self._initializer_type
    optimizer_loss,          \* self._optimizer_loss
    optimizer_method,        \* self._optimizer_method
    use_parameter_normalization,  \* self._use_parameter_normalization
    rpc,                     \* position of run_registration
    steps,                   \* what run_registration has called so far
    \* ---- FilenameParser: the directory and the caller's list ----
    directory,               \* os.listdir(directory)
    filenames,               \* the list object handed to the parser
    filenames_tmp,           \* the copy of the list the last loop ran over
    \* ---- what the last call handed to its caller ----
    ret                      \* a returned value or the message of an exception

objVars  == <<stacks, HR_volume, deconvolution_mode, predefined_covariance,
              alpha_cut, N_total_slice_voxels, N_voxels_HR_volume>>
engVars  == <<filter_oriented_Gaussian, filter_adjoint_oriented_Gaussian>>
setVars  == <<alpha, iter_max, minimizer, data_loss, reg_type>>
runVars  == <<pc, solver, diag, runStart, raised>>
statVars == <<residual_ell2, residual_prior>>
callVars == <<lastMA, lastAdj, lastMy>>
regVars  == <<self_stack, N_slices, reference, initializer_type, optimizer_loss,
              optimizer_method, use_parameter_normalization, rpc, steps>>
parVars  == <<directory, filenames, filenames_tmp>>
vars     == <<objVars, engVars, setVars, runVars, statVars, callVars, conv,
              regVars, parVars, ret>>

(***************************************************************************)
(* Bounds of the model                                                     *)
(***************************************************************************)
MaxStacks == 2      \* stacks handed to the constructor
MaxSlices == 2      \* slices per stack
MaxDim    == 2      \* extent of a reference image along each axis (conversion)
MaxVal    == 1      \* largest intensity of a patterned test vector
MaxIter   == 2      \* largest iteration budget iter_max

None == "None"               \* None where the value is a string

NoneRec == [kind |-> "None"]  \* None where the value is a record

\* no registration object exists
NoRegistration ==
    /\ self_stack = NoneRec /\ N_slices = 0 /\ reference = NoneRec
    /\ initializer_type = None /\ optimizer_loss = None /\ optimizer_method = None
    /\ use_parameter_normalization = FALSE
    /\ rpc = "unconstructed" /\ steps = <<>>

\* no directory is looked at and no list is handed to the parser
NoParser == directory = <<>> /\ filenames = <<>> /\ filenames_tmp = <<>>

(***************************************************************************)
(* Arithmetic helpers                                                      *)
(***************************************************************************)
Prod3(s) == s[1] * s[2] * s[3]

Rev3(s) == <<s[3], s[2], s[1]>>

Idx3(s) == (0 .. s[1] - 1) \X (0 .. s[2] - 1) \X (0 .. s[3] - 1)

RECURSIVE SumTo(_, _)
SumTo(f, n) == IF n = 0 THEN 0 ELSE f[n] + SumTo(f, n - 1)

\* numpy inner product of two flat vectors of the same length
Dot(u, v) == SumTo([n \in 1 .. Len(u) |-> u[n] * v[n]], Len(u))

Zeros(n) == [k \in 1 .. n |-> 0]

\* Test vectors of length n: the unit vectors and the patterns (a*k + b) mod (MaxVal+1)
UnitVecs(n) == { [k \in 1 .. n |-> IF k = u THEN 1 ELSE 0] : u \in 1 .. n }

PatternVecs(n) ==
    { [k \in 1 .. n |-> (a * k + b) % (MaxVal + 1)] : a \in 0 .. 1, b \in 0 .. MaxVal }

TestVecs(n) == UnitVecs(n) \cup PatternVecs(n)

\* the unit vectors and the vector of ones
BasisVecs(n) == UnitVecs(n) \cup { [k \in 1 .. n |-> 1] }

(***************************************************************************)
(* numpy / ITK conversions                                                 *)
(***************************************************************************)
\* C-order offset of numpy index t in an array of the given shape
RavelIndex(t, shape) == (t[1] * shape[2] + t[2]) * shape[3] + t[3]

\* ndarray.reshape(shape) of a flat vector (C order)
reshape(vec, shape) ==
    [shape |-> shape,
     el    |-> [t \in Idx3(shape) |-> vec[RavelIndex(t, shape) + 1]]]

\* numpy index with C-order offset n in an array of the given shape
UnravelIndex(n, shape) ==
    <<n \div (shape[2] * shape[3]), (n \div shape[3]) % shape[2], n % shape[3]>>

\* ndarray.flatten() of a 3-D array (C order)
flatten(nda) ==
    [n \in 1 .. Prod3(nda.shape) |-> nda.el[UnravelIndex(n - 1, nda.shape)]]

\* ndarray.flatten() of a flat vector: a copy, element by element
flatten1(vec) == [n \in 1 .. Len(vec) |-> vec[n]]

\* GetArrayFromImage: the array's axes are the image's axes in reverse order
GetArrayFromImage(img) ==
    [shape |-> Rev3(img.size),
     el    |-> [t \in Idx3(Rev3(img.size)) |-> img.pix[<<t[3], t[2], t[1]>>]]]

\* self._deconvolution_only_in_plane_through_plane_spacing = 1e-6: lengths are
\* counted in units of 1e-6, so that 1.0 is SpacingUnit
deconvolution_only_in_plane_through_plane_spacing == 1

SpacingUnit == 1000000 * deconvolution_only_in_plane_through_plane_spacing

\* geometry of a freshly created image: origin 0, unit spacing, identity direction
DefaultGeom == [origin |-> <<0, 0>>, spacing |-> <<SpacingUnit, SpacingUnit, SpacingUnit>>,
                direction |-> 0]

\* GetImageFromArray: the image's axes are the array's axes in reverse order
GetImageFromArray(nda) ==
    [size |-> Rev3(nda.shape),
     geom |-> DefaultGeom,
     pix  |-> [p \in Idx3(Rev3(nda.shape)) |-> nda.el[<<p[3], p[2], p[1]>>]]]

\* Mutant of get_itk_image_from_array_vec: the reference size is not reversed
\* before the reshape, and the array is laid over the reference grid as it is.
get_itk_image_from_array_vec_noreverse(nda_vec, image_itk_ref) ==
    LET shape_nda == image_itk_ref.size
        nda       == reshape(nda_vec, shape_nda)
    IN  [size |-> image_itk_ref.size,
         geom |-> image_itk_ref.geom,
         pix  |-> [p \in Idx3(image_itk_ref.size) |-> nda.el[p]]]

\* Solver._get_itk_image_from_array_vec
get_itk_image_from_array_vec(nda_vec, image_itk_ref) ==
    LET shape_nda == Rev3(image_itk_ref.size)
        image_itk == GetImageFromArray(reshape(nda_vec, shape_nda))
    IN  [image_itk EXCEPT !.geom = image_itk_ref.geom]


(***************************************************************************)
(* Stacks, slices and the HR volume (data containers handed to the solver) *)
(***************************************************************************)
Grid(img) == [size |-> img.size, geom |-> img.geom]

\* Slice j of stack i: intensities and mask on the same grid
MakeSlice(i, j, inplane, maskPat) ==
    LET size == <<inplane[1], inplane[2], 1>>
        geom == [origin    |-> <<i, j>>,
                 spacing   |-> <<SpacingUnit, SpacingUnit, (i + 1) * SpacingUnit>>,
                 direction |-> i]
    IN  [itk      |-> [size |-> size, geom |-> geom,
                       pix  |-> [p \in Idx3(size) |-> 1 + ((i + j + p[1] + p[2]) % 2)]],
         itk_mask |-> [size |-> size, geom |-> geom,
                       pix  |-> [p \in Idx3(size) |-> (maskPat + i + j + p[1] + p[2]) % 2]]]

\* Stack i: an nx x ny x nz image cut into its nz slices of size nx x ny x 1
MakeStack(i, inplane, nz, maskPat) ==
    [size   |-> <<inplane[1], inplane[2], nz>>,
     slices |-> [j \in 1 .. nz |-> MakeSlice(i, j, inplane, maskPat)]]

get_slices(stack) == stack.slices

get_number_of_slices(stack) == Len(stack.slices)

InPlaneSizes == { <<1, 1>>, <<2, 1>> }

OtherInPlane(inplane) == CHOOSE s \in InPlaneSizes : s # inplane

\* The lists of stacks a solver is constructed with: n stacks, the first of the
\* given in-plane size and nz0 slices; the in-plane size of the later stacks
\* is the same or alternates, their slice count cycles through 1 .. MaxSlices.
StackLists(maskPat) ==
    { [i \in 1 .. n |->
         MakeStack(i,
                   IF alt /\ i % 2 = 0 THEN OtherInPlane(first) ELSE first,
                   ((nz0 + i - 2) % MaxSlices) + 1,
                   maskPat)] :
      n \in 1 .. MaxStacks, first \in InPlaneSizes, alt \in BOOLEAN, nz0 \in 1 .. MaxSlices }

HRGeom == [origin |-> <<0, 0>>, spacing |-> <<SpacingUnit, SpacingUnit, SpacingUnit>>,
           direction |-> 0]

\* an HR volume holding the initial estimate
MakeHR(size) ==
    [size |-> size, geom |-> HRGeom,
     pix  |-> [p \in Idx3(size) |-> (p[1] + 2 * p[2] + p[3]) % 3]]

HRSizes == { <<1, 2, 2>> }

(***************************************************************************)
(* PSF covariance (base.PSF) and the oriented resampling engine (ITK)      *)
(***************************************************************************)
\* PSF.get_gaussian_PSF_covariance_matrix_HR_volume_coordinates_from_direction_and_spacing
PSF_from_direction_and_spacing(direction, spacing, HR) ==
    [kind |-> "spacing", direction |-> direction, param |-> spacing,
     hr_direction |-> HR.geom.direction]

\* PSF.get_gaussian_PSF_covariance_matrix_HR_volume_coordinates
PSF_HR_volume_coordinates(slice, HR) ==
    PSF_from_direction_and_spacing(slice.itk.geom.direction, slice.itk.geom.spacing, HR)

\* PSF.get_gaussian_PSF_covariance_matrix_HR_volume_coordinates_from_covariances
PSF_from_covariances(slice, HR, cov) ==
    [kind |-> "cov", direction |-> slice.itk.geom.direction, param |-> cov,
     hr_direction |-> HR.geom.direction]

\* sum of f over the voxels of a grid of the given size
RECURSIVE SumVoxels(_, _, _)
SumVoxels(f, size, n) ==
    IF n = 0 THEN 0
    ELSE f[UnravelIndex(n - 1, size)] + SumVoxels(f, size, n - 1)

CovCode(cov) ==
    IF cov = NoneRec THEN 0
    ELSE cov.direction + cov.hr_direction +
         (IF cov.kind = "spacing"
          THEN (cov.param[1] + cov.param[2] + cov.param[3]) \div SpacingUnit
               + (cov.param[3] % SpacingUnit)
          ELSE IF cov.param = NoneRec THEN 0
          ELSE cov.param.m[1][1] + cov.param.m[2][2] + cov.param.m[3][3]
               + cov.param.m[1][2] + cov.param.m[2][3])

\* Weight of HR voxel q in slice voxel p of the blurred resampling: a fixed
\* function of the covariance, the cut-off, and the two grids (code) and of
\* the two voxels.
KernelCode(cov, cut, sliceGrid, hrGrid) ==
    CovCode(cov) + cut + sliceGrid.geom.origin[1] + 2 * sliceGrid.geom.origin[2]
       + hrGrid.geom.origin[1]

Weight(code, p, q) ==
    (code + p[1] + 2 * p[2] + q[1] + 2 * q[2] + 3 * q[3] + p[1] * q[1]) % 3

\* OrientedGaussianInterpolateImageFilter: Update() on the given input
ForwardResample(filter, input) ==
    [size |-> filter.Output.size, geom |-> filter.Output.geom,
     pix  |-> LET code == KernelCode(filter.Covariance, filter.Alpha, filter.Output,
                                     Grid(input))
              IN  [p \in Idx3(filter.Output.size) |->
                     SumVoxels([q \in Idx3(input.size) |-> Weight(code, p, q) * input.pix[q]],
                               input.size, Prod3(input.size))]]

\* AdjointOrientedGaussianInterpolateImageFilter: the transpose of the above
AdjointResample(filter, input) ==
    [size |-> filter.Output.size, geom |-> filter.Output.geom,
     pix  |-> LET code == KernelCode(filter.Covariance, filter.Alpha, Grid(input),
                                     filter.Output)
              IN  [q \in Idx3(filter.Output.size) |->
                     SumVoxels([p \in Idx3(input.size) |-> Weight(code, p, q) * input.pix[p]],
                               input.size, Prod3(input.size))]]

(***************************************************************************)
(* Solver: per-slice operators.  The two engines are passed and returned   *)
(* as eng = [fwd, adj]; self is the solver object held in the variables.   *)
(***************************************************************************)
DeconvolutionModes == {"full_3D", "only_in_plane", "predefined_covariance"}

\* Solver._update_oriented_adjoint_oriented_Gaussian_image_filters_full_3D
update_filters_full_3D(eng, slice) ==
    LET Cov_HR_coord == PSF_HR_volume_coordinates(slice, HR_volume)
    IN  [fwd |-> [eng.fwd EXCEPT !.Covariance = Cov_HR_coord, !.Output = Grid(slice.itk)],
         adj |-> [eng.adj EXCEPT !.Covariance = Cov_HR_coord]]

\* Mutant of update_filters_in_plane: the through-plane spacing of the slice is
\* kept as it is
update_filters_in_plane_keep(eng, slice) ==
    LET spacing   == slice.itk.geom.spacing
        direction == slice.itk.geom.direction
        Cov_HR_coord == PSF_from_direction_and_spacing(direction, spacing, HR_volume)
    IN  [fwd |-> [eng.fwd EXCEPT !.Covariance = Cov_HR_coord, !.Output = Grid(slice.itk)],
         adj |-> [eng.adj EXCEPT !.Covariance = Cov_HR_coord]]

\* Solver._update_oriented_adjoint_oriented_Gaussian_image_filters_in_plane
update_filters_in_plane(eng, slice) ==
    LET spacing   == [slice.itk.geom.spacing EXCEPT
                        ![3] = deconvolution_only_in_plane_through_plane_spacing]
        direction == slice.itk.geom.direction
        Cov_HR_coord == PSF_from_direction_and_spacing(direction, spacing, HR_volume)
    IN  [fwd |-> [eng.fwd EXCEPT !.Covariance = Cov_HR_coord, !.Output = Grid(slice.itk)],
         adj |-> [eng.adj EXCEPT !.Covariance = Cov_HR_coord]]

\* Solver._update_oriented_adjoint_oriented_Gaussian_image_filters_predefined_covariance
update_filters_predefined_covariance(eng, slice) ==
    LET Cov_HR_coord == PSF_from_covariances(slice, HR_volume, predefined_covariance)
    IN  [fwd |-> [eng.fwd EXCEPT !.Covariance = Cov_HR_coord, !.Output = Grid(slice.itk)],
         adj |-> [eng.adj EXCEPT !.Covariance = Cov_HR_coord]]

\* self._update_oriented_adjoint_oriented_Gaussian_image_filters[mode]
update_filters_for(mode, eng, slice) ==
    CASE mode = "full_3D"               -> update_filters_full_3D(eng, slice)
      [] mode = "only_in_plane"         -> update_filters_in_plane(eng, slice)
      [] mode = "predefined_covariance" -> update_filters_predefined_covariance(eng, slice)

\* Mutant of update_filters: the engines are configured for the first slice they
\* are used on and keep that configuration afterwards.
update_filters_once(eng, slice) ==
    IF eng.fwd.Covariance = NoneRec
    THEN update_filters_for(deconvolution_mode, eng, slice)
    ELSE eng

\* Solver._Ak, _Ak_adj: the update for the active mode, before the engine is used
update_filters(eng, slice) == update_filters_for(deconvolution_mode, eng, slice)

\* Solver._Ak: [eng, out, used], used being the forward engine as it was invoked
Ak_run(e, HR_volume_itk) ==
    [eng |-> e, out |-> ForwardResample(e.fwd, HR_volume_itk), used |-> e.fwd]

Ak(eng, HR_volume_itk, slice_k) == Ak_run(update_filters(eng, slice_k), HR_volume_itk)

\* Solver._Ak_adj: [eng, out, used], used being the adjoint engine as it was invoked
Ak_adj_run(e, slice_itk) ==
    [eng |-> e, out |-> AdjointResample(e.adj, slice_itk), used |-> e.adj]

Ak_adj(eng, slice_itk, slice_k) == Ak_adj_run(update_filters(eng, slice_k), slice_itk)

\* Mutant of Mk: the mask is not applied
Mk_nomask(slice_itk, slice_k) ==
    [size |-> slice_k.itk_mask.size, geom |-> slice_k.itk_mask.geom,
     pix  |-> [p \in Idx3(slice_k.itk_mask.size) |-> slice_itk.pix[p]]]

\* Solver._Mk: itk.MultiplyImageFilter(mask, image), on the mask's grid
Mk(slice_itk, slice_k) ==
    [size |-> slice_k.itk_mask.size, geom |-> slice_k.itk_mask.geom,
     pix  |-> [p \in Idx3(slice_k.itk_mask.size) |->
                 slice_k.itk_mask.pix[p] * slice_itk.pix[p]]]

\* Solver._Mk_Ak
Mk_Ak(eng, HR_volume_itk, slice_k) ==
    [Ak(eng, HR_volume_itk, slice_k) EXCEPT !.out = Mk(@, slice_k)]

\* Mutant of Ak_adj_Mk: the adjoint is applied to the unmasked slice
Ak_adj_Mk_nomask(eng, slice_itk, slice_k) == Ak_adj(eng, slice_itk, slice_k)

\* Solver._Ak_adj_Mk
Ak_adj_Mk(eng, slice_itk, slice_k) ==
    Ak_adj(eng, Mk(slice_itk, slice_k), slice_k)

(***************************************************************************)
(* Solver: block operators over all slices of all stacks                   *)
(***************************************************************************)
Min(a, b) == IF a < b THEN a ELSE b

\* arr[i_min:i_max] = vec (numpy): the slice is clipped to the array, and the
\* value must have the slice's length (or length 1), else ValueError
SliceFits(arr, i_min, i_max, vec) ==
    \/ Len(vec) = Min(i_max, Len(arr)) - Min(i_min, Len(arr))
    \/ Len(vec) = 1

SliceAssign(arr, i_min, i_max, vec) ==
    [k \in 1 .. Len(arr) |->
        IF Min(i_min, Len(arr)) < k /\ k <= Min(i_max, Len(arr))
        THEN (IF Len(vec) = 1 THEN vec[1] ELSE vec[k - Min(i_min, Len(arr))])
        ELSE arr[k]]

\* arr[i_min:i_max] (numpy): clipped to the array
SliceRead(arr, i_min, i_max) ==
    SubSeq(arr, Min(i_min, Len(arr)) + 1, Min(i_max, Len(arr)))

\* sum of two numpy vectors of the same length
VecAdd(u, v) == [k \in 1 .. Len(u) |-> u[k] + v[k]]

\* self._N_stacks
N_stacks == Len(stacks)

\* Mutant of N_total_of: the voxels of one slice per stack are counted
RECURSIVE N_total_of_one_slice(_, _)
N_total_of_one_slice(stks, i) ==
    IF i = 0 THEN 0
    ELSE N_total_of_one_slice(stks, i - 1) + stks[i].size[1] * stks[i].size[2]

\* Solver.__init__: total amount of pixels for all slices
RECURSIVE N_total_of(_, _)
N_total_of(stks, i) ==
    IF i = 0 THEN 0 ELSE N_total_of(stks, i - 1) + Prod3(stks[i].size)

\* Solver._get_M_y, lines 473-488: slice j of stack i fills its block
get_M_y_slice(st, i, j, N_slice_voxels, slice_nda_vec) ==
    IF ~SliceFits(st.out, st.i_min, st.i_min + N_slice_voxels, slice_nda_vec)
    THEN [st EXCEPT !.err = "ValueError"]
    ELSE [out   |-> SliceAssign(st.out, st.i_min, st.i_min + N_slice_voxels, slice_nda_vec),
          i_min |-> st.i_min + N_slice_voxels,
          log   |-> Append(st.log, [i |-> i, j |-> j, i_min |-> st.i_min,
                                    i_max |-> st.i_min + N_slice_voxels]),
          err   |-> None]

\* Solver._get_M_y, the loop from stack i, slice j on; st = [out, i_min, log, err]
RECURSIVE get_M_y_loop(_, _, _)
get_M_y_loop(i, j, st) ==
    IF st.err # None \/ i > N_stacks THEN st
    ELSE IF j > get_number_of_slices(stacks[i]) THEN get_M_y_loop(i + 1, 1, st)
    ELSE get_M_y_loop(i, j + 1,
           get_M_y_slice(st, i, j,
               Prod3(get_slices(stacks[i])[1].itk.size),
               flatten(GetArrayFromImage(Mk(get_slices(stacks[i])[j].itk,
                                            get_slices(stacks[i])[j])))))

\* Solver._get_M_y
get_M_y ==
    get_M_y_loop(1, 1, [out |-> Zeros(N_total_slice_voxels), i_min |-> 0,
                        log |-> <<>>, err |-> None])

\* Solver._MA, lines 543-554: slice j of stack i fills its block with M_k A_k x (r)
MA_slice(st, i, j, N_slice_voxels, r, slice_nda_vec) ==
    IF ~SliceFits(st.out, st.i_min, st.i_min + N_slice_voxels, slice_nda_vec)
    THEN [st EXCEPT !.err = "ValueError", !.eng = r.eng]
    ELSE [out   |-> SliceAssign(st.out, st.i_min, st.i_min + N_slice_voxels, slice_nda_vec),
          i_min |-> st.i_min + N_slice_voxels,
          eng   |-> r.eng,
          log   |-> Append(st.log, [i |-> i, j |-> j, i_min |-> st.i_min,
                                    i_max |-> st.i_min + N_slice_voxels,
                                    used |-> r.used]),
          err   |-> None]

MA_slice_r(st, i, j, N_slice_voxels, r) ==
    MA_slice(st, i, j, N_slice_voxels, r, flatten(GetArrayFromImage(r.out)))

\* Solver._MA, the loop from stack i, slice j on; st = [out, i_min, eng, log, err]
RECURSIVE MA_loop(_, _, _, _)
MA_loop(x_itk, i, j, st) ==
    IF st.err # None \/ i > N_stacks THEN st
    ELSE IF j > get_number_of_slices(stacks[i]) THEN MA_loop(x_itk, i + 1, 1, st)
    ELSE MA_loop(x_itk, i, j + 1,
           MA_slice_r(st, i, j,
               Prod3(get_slices(stacks[i])[1].itk.size),
               Mk_Ak(st.eng, x_itk, get_slices(stacks[i])[j])))

\* Solver._MA
MA(eng, HR_nda_vec) ==
    MA_loop(get_itk_image_from_array_vec(HR_nda_vec, HR_volume), 1, 1,
            [out |-> Zeros(N_total_slice_voxels), i_min |-> 0,
             eng |-> eng, log |-> <<>>, err |-> None])

\* Mutant of the accumulation of _A_adj_M: the contribution overwrites the accumulator
Accumulate_overwrite(A_adj_M_y, Ak_adj_Mk_slice_nda_vec) == Ak_adj_Mk_slice_nda_vec

\* Solver._A_adj_M: A_adj_M_y = A_adj_M_y + Ak_adj_Mk_slice_nda_vec
Accumulate(A_adj_M_y, Ak_adj_Mk_slice_nda_vec) ==
    VecAdd(A_adj_M_y, Ak_adj_Mk_slice_nda_vec)

\* Mutant of A_adj_M_add: the running offset is not advanced to the next block
A_adj_M_add_noadvance(st, i, j, N_slice_voxels, r) ==
    [out   |-> Accumulate(st.out, flatten(GetArrayFromImage(r.out))),
     i_min |-> st.i_min,
     eng   |-> r.eng,
     log   |-> Append(st.log, [i |-> i, j |-> j, i_min |-> st.i_min,
                               i_max |-> st.i_min + N_slice_voxels,
                               used |-> r.used]),
     err   |-> None]

\* Solver._A_adj_M, lines 601-610: the contribution r of slice j of stack i is added
A_adj_M_add(st, i, j, N_slice_voxels, r) ==
    [out   |-> Accumulate(st.out, flatten(GetArrayFromImage(r.out))),
     i_min |-> st.i_min + N_slice_voxels,
     eng   |-> r.eng,
     log   |-> Append(st.log, [i |-> i, j |-> j, i_min |-> st.i_min,
                               i_max |-> st.i_min + N_slice_voxels,
                               used |-> r.used]),
     err   |-> None]

\* Solver._A_adj_M, lines 590-610: slice j of stack i reads its block of z
A_adj_M_slice(st, i, j, N_slice_voxels, slice_k, block) ==
    IF Len(block) # Prod3(slice_k.itk.size)
    THEN [st EXCEPT !.err = "ValueError"]
    ELSE A_adj_M_add(st, i, j, N_slice_voxels,
           Ak_adj_Mk(st.eng, get_itk_image_from_array_vec(block, slice_k.itk), slice_k))

\* Solver._A_adj_M, the loop from stack i, slice j on; st = [out, i_min, eng, log, err]
RECURSIVE A_adj_M_loop(_, _, _, _)
A_adj_M_loop(stacked_slices_nda_vec, i, j, st) ==
    IF st.err # None \/ i > N_stacks THEN st
    ELSE IF j > get_number_of_slices(stacks[i])
    THEN A_adj_M_loop(stacked_slices_nda_vec, i + 1, 1, st)
    ELSE A_adj_M_loop(stacked_slices_nda_vec, i, j + 1,
           A_adj_M_slice(st, i, j,
               Prod3(get_slices(stacks[i])[1].itk.size),
               get_slices(stacks[i])[j],
               SliceRead(stacked_slices_nda_vec, st.i_min,
                         st.i_min + Prod3(get_slices(stacks[i])[1].itk.size))))

\* Solver._A_adj_M
A_adj_M(eng, stacked_slices_nda_vec) ==
    A_adj_M_loop(stacked_slices_nda_vec, 1, 1,
                 [out |-> Zeros(N_voxels_HR_volume), i_min |-> 0,
                  eng |-> eng, log |-> <<>>, err |-> None])

\* Mutant of get_x0: the initial value is the zero vector
get_x0_zero == Zeros(Prod3(HR_volume.size))

\* Solver._get_x0
get_x0 == flatten(GetArrayFromImage(HR_volume))

(***************************************************************************)
(* Construction                                                            *)
(***************************************************************************)
\* number of elements of the numpy array made of the argument (.size)
ArraySize(cov) ==
    IF cov.kind = "diag" THEN Len(cov.m) ELSE Len(cov.m) * Len(cov.m[1])

\* Mutant of ExpandCovariance: the array is stored as it was given
ExpandCovariance_asgiven(cov) == cov

\* Solver.__init__ / set_predefined_covariance: an array of 3 elements becomes
\* the diagonal matrix np.diag makes of it, any other array is kept
ExpandCovariance(cov) ==
    IF cov = NoneRec THEN NoneRec
    ELSE IF ArraySize(cov) = 3
    THEN [kind |-> "matrix",
          m    |-> [r \in 1 .. 3 |-> [c \in 1 .. 3 |-> IF r = c THEN cov.m[r] ELSE 0]]]
    ELSE cov

\* Solver.__init__ (and TikhonovSolver.__init__): the attributes it assigns
Constructed(stks, HR, cut, mode, cov, a, it, mini, loss, reg) ==
    [stacks |-> stks,
     HR_volume |-> HR,
     deconvolution_mode |-> mode,
     predefined_covariance |-> ExpandCovariance(cov),
     alpha_cut |-> cut,
     filter_oriented_Gaussian |->
          [Covariance |-> NoneRec, Output |-> NoneRec, Alpha |-> cut,
           DefaultPixelValue |-> 0],
     filter_adjoint_oriented_Gaussian |->
          [Covariance |-> NoneRec, Output |-> Grid(HR), Alpha |-> cut,
           DefaultPixelValue |-> 0],
     N_total_slice_voxels |-> N_total_of(stks, Len(stks)),
     N_voxels_HR_volume |-> Prod3(HR.size),
     alpha |-> a,
     iter_max |-> it,
     minimizer |-> mini,
     data_loss |-> loss,
     reg_type |-> reg,
     residual_ell2 |-> NoneRec,
     residual_prior |-> NoneRec]

\* the state after construction
Construct(stks, HR, cut, mode, cov, a, it, mini, loss, reg) ==
    \E c \in {Constructed(stks, HR, cut, mode, cov, a, it, mini, loss, reg)} :
        /\ stacks = c.stacks
        /\ HR_volume = c.HR_volume
        /\ deconvolution_mode = c.deconvolution_mode
        /\ predefined_covariance = c.predefined_covariance
        /\ alpha_cut = c.alpha_cut
        /\ filter_oriented_Gaussian = c.filter_oriented_Gaussian
        /\ filter_adjoint_oriented_Gaussian = c.filter_adjoint_oriented_Gaussian
        /\ N_total_slice_voxels = c.N_total_slice_voxels
        /\ N_voxels_HR_volume = c.N_voxels_HR_volume
        /\ alpha = c.alpha
        /\ iter_max = c.iter_max
        /\ minimizer = c.minimizer
        /\ data_loss = c.data_loss
        /\ reg_type = c.reg_type
        /\ residual_ell2 = c.residual_ell2
        /\ residual_prior = c.residual_prior

Eng == [fwd |-> filter_oriented_Gaussian, adj |-> filter_adjoint_oriented_Gaussian]

NoCall == [called |-> FALSE]

(***************************************************************************)
(* Calls of the block operators                                            *)
(***************************************************************************)
\* A call of Solver._MA (forward_full) on x
CallMA(x) ==
    \E r \in {MA(Eng, x)} :
        /\ lastMA' = [called |-> TRUE, x |-> x, out |-> r.out, log |-> r.log,
                      i_min |-> r.i_min, err |-> r.err]
        /\ filter_oriented_Gaussian' = r.eng.fwd
        /\ filter_adjoint_oriented_Gaussian' = r.eng.adj
        /\ UNCHANGED <<objVars, setVars, runVars, statVars, lastAdj, lastMy, conv, regVars, parVars, ret>>

\* A call of Solver._A_adj_M (adjoint_full) on z
CallAadjM(z) ==
    \E r \in {A_adj_M(Eng, z)} :
        /\ lastAdj' = [called |-> TRUE, z |-> z, out |-> r.out, log |-> r.log,
                       i_min |-> r.i_min, err |-> r.err]
        /\ filter_oriented_Gaussian' = r.eng.fwd
        /\ filter_adjoint_oriented_Gaussian' = r.eng.adj
        /\ UNCHANGED <<objVars, setVars, runVars, statVars, lastMA, lastMy, conv, regVars, parVars, ret>>

\* A call of Solver._get_M_y (observation_vector)
CallGetMy ==
    \E r \in {get_M_y} :
        /\ lastMy' = [called |-> TRUE, out |-> r.out, log |-> r.log,
                      i_min |-> r.i_min, err |-> r.err]
        /\ UNCHANGED <<objVars, engVars, setVars, runVars, statVars, lastMA, lastAdj, conv, regVars, parVars, ret>>

DefaultCut == 3   \* alpha_cut=3

\* A solver constructed on any of the stack lists, HR volumes and modes
InitOps ==
    /\ \E size \in HRSizes, mode \in DeconvolutionModes :
         \E stks \in StackLists(0) :
            Construct(stks, MakeHR(size), DefaultCut, mode,
                      [kind |-> "diag", m |-> <<1, 2, 3>>],
                      2, 1, "lsmr", "linear", "TK1")
    /\ pc = "idle" /\ solver = NoneRec /\ diag = <<>> /\ runStart = NoneRec
    /\ raised = None
    /\ lastMA = NoCall /\ lastAdj = NoCall /\ lastMy = NoCall
    /\ conv = NoneRec
    /\ ret = NoneRec
    /\ NoRegistration /\ NoParser

NextOps ==
    \/ \E x \in BasisVecs(N_voxels_HR_volume) : ~lastMA.called /\ CallMA(x)
    \/ \E z \in BasisVecs(N_total_slice_voxels) : ~lastAdj.called /\ CallAadjM(z)
    \/ ~lastMy.called /\ CallGetMy

SpecOps == InitOps /\ [][NextOps]_vars

(***************************************************************************)
(* Vector -> image -> vector                                               *)
(***************************************************************************)
\* a reference image of the given size
RefImage(size) ==
    [size |-> size,
     geom |-> [origin |-> <<1, 1>>, spacing |-> <<SpacingUnit, SpacingUnit, 2 * SpacingUnit>>,
               direction |-> 1],
     pix  |-> [p \in Idx3(size) |-> 0]]

RefSizes == (1 .. MaxDim) \X (1 .. MaxDim) \X (1 .. MaxDim)

\* the vector 1, 2, ..., n
RampVec(n) == [k \in 1 .. n |-> k]

\* one fixed solver object
DefaultStacks ==
    [i \in 1 .. MaxStacks |->
        MakeStack(i, IF i % 2 = 1 THEN <<2, 1>> ELSE <<1, 1>>, ((i - 1) % MaxSlices) + 1, 0)]

DefaultObject(mode, loss, mini, reg) ==
    Construct(DefaultStacks, MakeHR(CHOOSE size \in HRSizes : TRUE), DefaultCut, mode,
              [kind |-> "diag", m |-> <<1, 2, 3>>], 2, MaxIter, mini, loss, reg)

\* a flat vector and a reference image of as many voxels
InitConv ==
    /\ DefaultObject("full_3D", "linear", "lsmr", "TK1")
    /\ pc = "idle" /\ solver = NoneRec /\ diag = <<>> /\ runStart = NoneRec
    /\ raised = None
    /\ lastMA = NoCall /\ lastAdj = NoCall /\ lastMy = NoCall
    /\ \E size \in RefSizes :
         \E x \in TestVecs(Prod3(size)) \cup {RampVec(Prod3(size))} :
            conv = [stage |-> "vector", ref |-> RefImage(size), x |-> x]
    /\ ret = NoneRec
    /\ NoRegistration /\ NoParser

\* Solver._get_itk_image_from_array_vec(x, ref)
ConvToImage ==
    /\ conv # NoneRec /\ conv.stage = "vector"
    /\ conv' = [stage |-> "image", ref |-> conv.ref, x |-> conv.x,
                image |-> get_itk_image_from_array_vec(conv.x, conv.ref)]
    /\ UNCHANGED <<objVars, engVars, setVars, runVars, statVars, callVars,
                   regVars, parVars, ret>>

\* GetArrayFromImage(image).flatten(), as in Solver._get_x0
ConvToVector ==
    /\ conv # NoneRec /\ conv.stage = "image"
    /\ conv' = [stage |-> "back", ref |-> conv.ref, x |-> conv.x, image |-> conv.image,
                back |-> flatten(GetArrayFromImage(conv.image))]
    /\ UNCHANGED <<objVars, engVars, setVars, runVars, statVars, callVars,
                   regVars, parVars, ret>>

NextConv == ConvToImage \/ ConvToVector

SpecConv == InitConv /\ [][NextConv]_vars

(***************************************************************************)
(* Regularization operators                                                *)
(***************************************************************************)
\* numpy index of the neighbour of t along axis a, or t itself at the border
NextAlong(t, a, shape) ==
    IF t[a] + 1 < shape[a] THEN [t EXCEPT ![a] = @ + 1] ELSE t

\* LinearOperators3D gradient: forward differences along the three axes of the
\* array, zero at the far border, the three components one after the other
Grad(x, shape) ==
    [n \in 1 .. 3 * Len(x) |->
        LET a == ((n - 1) \div Len(x)) + 1
            t == UnravelIndex((n - 1) % Len(x), shape)
        IN  x[RavelIndex(NextAlong(t, a, shape), shape) + 1] - x[RavelIndex(t, shape) + 1]]

\* the adjoint (transpose) of Grad, on a vector of three components
GradAdj(z, shape) ==
    [m \in 1 .. Len(z) \div 3 |->
        SumTo([n \in 1 .. Len(z) |->
                 LET a == ((n - 1) \div (Len(z) \div 3)) + 1
                     t == UnravelIndex((n - 1) % (Len(z) \div 3), shape)
                 IN  ((IF RavelIndex(NextAlong(t, a, shape), shape) + 1 = m THEN 1 ELSE 0)
                      - (IF RavelIndex(t, shape) + 1 = m THEN 1 ELSE 0)) * z[n]],
              Len(z))]

\* self._reconstruction_shape
reconstruction_shape == Rev3(HR_volume.size)

\* the closures B and B_adj, applied to a flat vector
ApplyOp(op, x) ==
    CASE op = "flatten"  -> flatten1(x)
      [] op = "grad"     -> Grad(x, reconstruction_shape)
      [] op = "grad_adj" -> GradAdj(x, reconstruction_shape)

\* Mutant of RegOperators: the two branches are taken for the other type
RegOperators_swapped(reg) ==
    IF reg = "TK0" THEN [B |-> "grad", B_adj |-> "grad_adj"]
    ELSE [B |-> "flatten", B_adj |-> "flatten"]

\* TikhonovSolver._run_reconstruction: B and B_adj for the regularization type
RegOperators(reg) ==
    IF reg = "TK0" THEN [B |-> "flatten", B_adj |-> "flatten"]
    ELSE [B |-> "grad", B_adj |-> "grad_adj"]

(***************************************************************************)
(* Settings                                                                *)
(***************************************************************************)
RegTypes == {"TK0", "TK1"}

Minimizers == {"lsmr", "lsqr", "L-BFGS-B"}

DataLosses == {"linear", "soft_l1", "huber", "cauchy", "arctan"}

Idle == pc \in {"idle", "done", "raised"}

\* TikhonovSolver.set_regularization_type
set_regularization_type(r) ==
    /\ Idle
    /\ reg_type' = r
    /\ raised' = None
    /\ ret' = NoneRec
    /\ UNCHANGED <<objVars, engVars, alpha, iter_max, minimizer, data_loss,
                   pc, solver, diag, runStart, statVars, callVars, conv, regVars, parVars>>

\* Solver.set_minimizer
set_minimizer(mini) ==
    /\ Idle
    /\ minimizer' = mini
    /\ raised' = None
    /\ ret' = NoneRec
    /\ UNCHANGED <<objVars, engVars, alpha, iter_max, reg_type, data_loss,
                   pc, solver, diag, runStart, statVars, callVars, conv, regVars, parVars>>

\* Solver.set_alpha
set_alpha(a) ==
    /\ Idle
    /\ alpha' = a
    /\ raised' = None
    /\ ret' = NoneRec
    /\ UNCHANGED <<objVars, engVars, iter_max, minimizer, data_loss, reg_type,
                   pc, solver, diag, runStart, statVars, callVars, conv, regVars, parVars>>

\* Solver.set_iter_max
set_iter_max(n) ==
    /\ Idle
    /\ iter_max' = n
    /\ raised' = None
    /\ ret' = NoneRec
    /\ UNCHANGED <<objVars, engVars, alpha, minimizer, data_loss, reg_type,
                   pc, solver, diag, runStart, statVars, callVars, conv, regVars, parVars>>

\* Mutant of data_loss_rejected: no value is rejected
data_loss_rejected_none(v) == FALSE

\* Solver.set_data_loss: the membership test of its first statement
data_loss_rejected(v) ==
    v \notin {"linear", "soft_l1", "huber", "cauchy", "arctan"}

\* Solver.set_data_loss: a rejected value raises ValueError; for any other
\* value the assignment reads the name loss, which is not defined
set_data_loss(v) ==
    /\ Idle
    /\ IF data_loss_rejected(v)
       THEN /\ raised' = "ValueError"
            /\ ret' = [kind |-> "message",
                       names |-> {"linear", "soft_l1", "huber", "cauchy", "arctan"}]
       ELSE /\ raised' = "NameError"
            /\ ret' = [kind |-> "message", names |-> {"loss"}]
    /\ UNCHANGED <<objVars, engVars, setVars,
                   pc, solver, diag, runStart, statVars, callVars, conv, regVars, parVars>>

(***************************************************************************)
(* The setting specific filename.  A string is a sequence of pieces; every *)
(* piece that can hold a dot is a single character.                        *)
(***************************************************************************)
Digit(d) == <<"0", "1", "2", "3", "4", "5", "6", "7", "8", "9">>[d + 1]

\* str(n) of an int n >= 0
RECURSIVE StrInt(_)
StrInt(n) == IF n < 10 THEN <<Digit(n)>> ELSE StrInt(n \div 10) \o <<Digit(n % 10)>>

\* the digits of the fraction f / scale, without trailing zeros
RECURSIVE FracDigits(_, _)
FracDigits(f, scale) ==
    IF f = 0 \/ scale = 1 THEN <<>>
    ELSE <<Digit((10 * f) \div scale)>> \o FracDigits(((10 * f) % scale) \div 10, scale \div 10)

\* str(x) of the float x = n / scale (scale a power of ten): integer part, a
\* dot, and the fraction digits, "0" if there are none
StrFloat(n, scale) ==
    StrInt(n \div scale) \o <<".">>
    \o (IF n % scale = 0 THEN <<"0">> ELSE FracDigits(n % scale, scale))

\* self._huber_gamma (default of the constructor), in thousandths
huber_gamma == 1345

\* Mutant of ReplaceDots: the string is left as it is
ReplaceDots_none(str) == str

\* filename.replace(".", "p")
ReplaceDots(str) == [k \in 1 .. Len(str) |-> IF str[k] = "." THEN "p" ELSE str[k]]

\* TikhonovSolver.get_setting_specific_filename, lines 188-199: the string
\* before the dots are replaced
filename_of(prefix, n_stacks, a, reg, mini, loss, gamma, it) ==
    prefix
    \o <<"stacks">> \o StrInt(n_stacks)
    \o (IF a > 0 THEN <<"_", reg>> ELSE <<>>)
    \o <<"_", mini>>
    \o (IF loss # "linear" \/ mini = "L-BFGS-B"
        THEN <<"_", loss>> \o (IF loss = "huber" THEN StrFloat(gamma, 1000) ELSE <<>>)
        ELSE <<>>)
    \o <<"_alpha">> \o StrFloat(a, 100)
    \o <<"_itermax">> \o StrInt(it)

\* TikhonovSolver.get_setting_specific_filename
get_setting_specific_filename(prefix) ==
    /\ Idle
    /\ ret' = [kind |-> "value",
               value |-> ReplaceDots(filename_of(prefix, Len(stacks), alpha, reg_type,
                                                 minimizer, data_loss, huber_gamma,
                                                 iter_max))]
    /\ raised' = None
    /\ UNCHANGED <<objVars, engVars, setVars, pc, solver, diag, runStart,
                   statVars, callVars, conv, regVars, parVars>>

\* prefixes: the default "SRR_" and one with a dot, "v1.0_"
Prefixes == {<<"S", "R", "R", "_">>, <<"v", "1", ".", "0", "_">>}

\* values handed to the setters
AlphaValues == {0, 2, 150}

UnknownName == "unknown"

\* a solver with any data loss (a constructor argument)
InitSet ==
    /\ \E loss \in DataLosses : DefaultObject("full_3D", loss, "lsmr", "TK1")
    /\ pc = "idle" /\ solver = NoneRec /\ diag = <<>> /\ runStart = NoneRec
    /\ raised = None
    /\ lastMA = NoCall /\ lastAdj = NoCall /\ lastMy = NoCall
    /\ conv = NoneRec
    /\ ret = NoneRec
    /\ NoRegistration /\ NoParser

NextSet ==
    \/ \E a \in AlphaValues : set_alpha(a)
    \/ \E n \in 1 .. MaxIter : set_iter_max(n)
    \/ \E mini \in Minimizers \cup {UnknownName} : set_minimizer(mini)
    \/ \E r \in RegTypes \cup {"TK2", UnknownName} : set_regularization_type(r)
    \/ \E v \in DataLosses \cup {UnknownName} : set_data_loss(v)
    \/ \E prefix \in Prefixes : get_setting_specific_filename(prefix)

SpecSet == InitSet /\ [][NextSet]_vars

(***************************************************************************)
(* Construction, and the predefined covariance                             *)
(***************************************************************************)
\* the constructor call: from no object to the constructed one
New(stks, HR, cut, mode, cov, a, it, mini, loss, reg) ==
    /\ pc = "unconstructed"
    /\ \E c \in {Constructed(stks, HR, cut, mode, cov, a, it, mini, loss, reg)} :
        /\ stacks' = c.stacks
        /\ HR_volume' = c.HR_volume
        /\ deconvolution_mode' = c.deconvolution_mode
        /\ predefined_covariance' = c.predefined_covariance
        /\ alpha_cut' = c.alpha_cut
        /\ filter_oriented_Gaussian' = c.filter_oriented_Gaussian
        /\ filter_adjoint_oriented_Gaussian' = c.filter_adjoint_oriented_Gaussian
        /\ N_total_slice_voxels' = c.N_total_slice_voxels
        /\ N_voxels_HR_volume' = c.N_voxels_HR_volume
        /\ alpha' = c.alpha
        /\ iter_max' = c.iter_max
        /\ minimizer' = c.minimizer
        /\ data_loss' = c.data_loss
        /\ reg_type' = c.reg_type
        /\ residual_ell2' = c.residual_ell2
        /\ residual_prior' = c.residual_prior
    /\ pc' = "idle"
    /\ raised' = None
    /\ ret' = NoneRec
    /\ UNCHANGED <<solver, diag, runStart, callVars, conv, regVars, parVars>>

\* Solver.set_predefined_covariance
set_predefined_covariance(cov) ==
    /\ Idle
    /\ predefined_covariance' = ExpandCovariance(cov)
    /\ raised' = None
    /\ ret' = NoneRec
    /\ UNCHANGED <<stacks, HR_volume, deconvolution_mode, alpha_cut,
                   N_total_slice_voxels, N_voxels_HR_volume, engVars, setVars,
                   pc, solver, diag, runStart, statVars, callVars, conv, regVars, parVars>>

\* Solver.get_predefined_covariance
get_predefined_covariance ==
    /\ Idle
    /\ ret' = [kind |-> "value", value |-> predefined_covariance]
    /\ raised' = None
    /\ UNCHANGED <<objVars, engVars, setVars, pc, solver, diag, runStart,
                   statVars, callVars, conv, regVars, parVars>>

\* covariances handed over as 3 diagonal entries or as a 3x3 array
CovInputs ==
    {[kind |-> "diag", m |-> <<1, 2, 3>>],
     [kind |-> "diag", m |-> <<2, 2, 1>>],
     [kind |-> "matrix", m |-> <<<<1, 0, 0>>, <<0, 2, 0>>, <<0, 0, 3>>>>],
     [kind |-> "matrix", m |-> <<<<2, 1, 0>>, <<1, 2, 0>>, <<0, 0, 1>>>>]}

\* lists of stacks handed to the constructor, the empty list among them
NewStackLists == {<<>>, <<DefaultStacks[1]>>, DefaultStacks}

\* no solver object yet
InitNew ==
    /\ pc = "unconstructed"
    /\ stacks = <<>> /\ HR_volume = NoneRec
    /\ deconvolution_mode = None /\ predefined_covariance = NoneRec
    /\ alpha_cut = 0
    /\ filter_oriented_Gaussian = NoneRec /\ filter_adjoint_oriented_Gaussian = NoneRec
    /\ N_total_slice_voxels = 0 /\ N_voxels_HR_volume = 0
    /\ alpha = 0 /\ iter_max = 0
    /\ minimizer = None /\ data_loss = None /\ reg_type = None
    /\ residual_ell2 = NoneRec /\ residual_prior = NoneRec
    /\ solver = NoneRec /\ diag = <<>> /\ runStart = NoneRec
    /\ raised = None
    /\ lastMA = NoCall /\ lastAdj = NoCall /\ lastMy = NoCall
    /\ conv = NoneRec
    /\ ret = NoneRec
    /\ NoRegistration /\ NoParser

NextNew ==
    \/ \E stks \in NewStackLists, cov \in CovInputs, mode \in DeconvolutionModes :
         New(stks, MakeHR(CHOOSE size \in HRSizes : TRUE), DefaultCut, mode, cov,
             2, MaxIter, "lsmr", "linear", "TK1")
    \/ \E cov \in CovInputs : set_predefined_covariance(cov)
    \/ get_predefined_covariance
    \/ Idle /\ CallMA([k \in 1 .. N_voxels_HR_volume |-> 1])
    \/ Idle /\ CallAadjM([k \in 1 .. N_total_slice_voxels |-> 1])
    \/ Idle /\ CallGetMy

SpecNew == InitNew /\ [][NextNew]_vars

(***************************************************************************)
(* A run: TikhonovSolver._run_reconstruction                               *)
(***************************************************************************)
\* Mutant of FallbackMinimizer: the selected minimizer is kept whatever the loss
FallbackMinimizer_never(loss, mini) == mini

\* TikhonovSolver._print_info_text: a non-linear loss requires L-BFGS-B
FallbackMinimizer(loss, mini) ==
    IF loss # "linear" /\ mini # "L-BFGS-B" THEN "L-BFGS-B" ELSE mini

\* TikhonovSolver._print_info_text: what is printed
InfoText(reg, mode, loss, a, mini, it) ==
    <<[text |-> "Chosen regularization type",
       value |-> IF reg = "TK0" THEN "Zeroth-order Tikhonov" ELSE "First-order Tikhonov"]>>
    \o (IF mode = "only_in_plane"
        THEN <<[text |-> "Only in-plane deconvolution is performed", value |-> mode]>>
        ELSE IF mode = "predefined_covariance"
        THEN <<[text |-> "Predefined covariance used", value |-> mode]>>
        ELSE <<>>)
    \o <<[text |-> "Loss function", value |-> loss],
         [text |-> "Regularization parameter", number |-> a]>>
    \o (IF loss # "linear" /\ mini # "L-BFGS-B"
        THEN <<[text |-> "selected minimizer cannot be used", value |-> mini]>>
        ELSE <<>>)
    \o <<[text |-> "Minimizer", value |-> FallbackMinimizer(loss, mini)],
         [text |-> "Maximum number of iterations", number |-> it]>>

\* the vectors the numerical solver may move to: non-negative (bounds = (0, inf))
SolverIterates == { [k \in 1 .. N_voxels_HR_volume |-> 1],
                    [k \in 1 .. N_voxels_HR_volume |-> IF k = 1 THEN 2 ELSE 0] }

\* _run_reconstruction up to the creation of the numerical solver
RunBegin ==
    /\ Idle
    /\ runStart' = [HR_volume |-> HR_volume, minimizer |-> minimizer,
                    data_loss |-> data_loss, reg_type |-> reg_type,
                    deconvolution_mode |-> deconvolution_mode]
    /\ IF reg_type \notin {"TK0", "TK1"}
       THEN /\ pc' = "raised"
            /\ raised' = "ValueError"
            /\ solver' = NoneRec
            /\ UNCHANGED <<objVars, engVars, setVars, diag, statVars, callVars, conv, regVars, parVars, ret>>
       ELSE /\ diag' = InfoText(reg_type, deconvolution_mode, data_loss, alpha,
                                minimizer, iter_max)
            /\ minimizer' = FallbackMinimizer(data_loss, minimizer)
            /\ solver' = [A |-> "MA", A_adj |-> "A_adj_M",
                          B |-> RegOperators(reg_type).B,
                          B_adj |-> RegOperators(reg_type).B_adj,
                          b |-> get_M_y.out,
                          x0 |-> get_x0,
                          alpha |-> alpha,
                          data_loss |-> data_loss,
                          minimizer |-> minimizer',
                          iter_max |-> iter_max,
                          x |-> get_x0,
                          iter |-> 0,
                          invoked |-> FALSE,
                          stop |-> None]
            /\ pc' = "running"
            /\ raised' = None
            /\ UNCHANGED <<objVars, engVars, alpha, iter_max, data_loss, reg_type,
                           statVars, callVars, conv, regVars, parVars, ret>>

\* solver.run(): one iteration, which evaluates A and A_adj once each.  The
\* numerical solver is not part of the repository: nothing is assumed about
\* whether or when it looks at the names of the minimizer and the loss.
SolverIterate ==
    /\ pc = "running"
    /\ solver.iter < solver.iter_max
    /\ deconvolution_mode \in DeconvolutionModes
    /\ \E x \in SolverIterates :
         \E r \in {A_adj_M(MA(Eng, solver.x).eng, solver.b)} :
            /\ solver' = [solver EXCEPT !.x = x, !.iter = @ + 1,
                                        !.invoked = @ \/ Len(r.log) > 0]
            /\ filter_oriented_Gaussian' = r.eng.fwd
            /\ filter_adjoint_oriented_Gaussian' = r.eng.adj
    /\ UNCHANGED <<objVars, setVars, pc, diag, runStart, raised, statVars, callVars, conv, regVars, parVars, ret>>

\* Mutant of HR_after_failed_run: the iterate the numerical solver stopped at is written back
HR_after_failed_run_partial(HR, x) == get_itk_image_from_array_vec(x, HR)

\* _run_reconstruction: an exception of solver.run() leaves lines 266-273 unexecuted
HR_after_failed_run(HR, x) == HR

\* solver.run() fails: the exception goes to the caller
SolverFail ==
    /\ pc = "running"
    /\ pc' = "raised"
    /\ raised' = "SolverError"
    /\ HR_volume' = HR_after_failed_run(HR_volume, solver.x)
    /\ UNCHANGED <<stacks, deconvolution_mode, predefined_covariance, alpha_cut,
                   N_total_slice_voxels, N_voxels_HR_volume,
                   engVars, setVars, solver, diag, runStart, statVars, callVars, conv, regVars, parVars, ret>>

\* solver.run(): the first evaluation of A or A_adj looks the update function
\* of the deconvolution mode up (first statement of _Ak and _Ak_adj); an
\* unknown mode raises KeyError there, before the engine is invoked
SolverKeyError ==
    /\ pc = "running"
    /\ deconvolution_mode \notin DeconvolutionModes
    /\ N_total_slice_voxels > 0
    /\ pc' = "raised"
    /\ raised' = "KeyError"
    /\ UNCHANGED <<objVars, engVars, setVars, solver, diag, runStart, statVars,
                   callVars, conv, regVars, parVars, ret>>

\* why solver.run() returned: converged, or the iteration budget is used up
StopReasons(s) ==
    {"converged"} \cup (IF s.iter = s.iter_max THEN {"max_iter"} ELSE {})

\* solver.run() returns, converged or with the iteration budget used up; the
\* solution is written back as the reconstruction and _run_reconstruction
\* returns nothing
RunFinish ==
    /\ pc = "running"
    /\ deconvolution_mode \in DeconvolutionModes
    /\ pc' = "done"
    /\ \E why \in StopReasons(solver) : solver' = [solver EXCEPT !.stop = why]
    /\ HR_volume' = get_itk_image_from_array_vec(solver.x, HR_volume)
    /\ ret' = NoneRec
    /\ UNCHANGED <<stacks, deconvolution_mode, predefined_covariance, alpha_cut,
                   N_total_slice_voxels, N_voxels_HR_volume,
                   engVars, setVars, diag, runStart, raised, statVars, callVars, conv, regVars, parVars>>

\* a solver with any data loss (a constructor argument)
InitRun ==
    /\ \E loss \in DataLosses : DefaultObject("full_3D", loss, "lsmr", "TK1")
    /\ pc = "idle" /\ solver = NoneRec /\ diag = <<>> /\ runStart = NoneRec
    /\ raised = None
    /\ lastMA = NoCall /\ lastAdj = NoCall /\ lastMy = NoCall
    /\ conv = NoneRec
    /\ ret = NoneRec
    /\ NoRegistration /\ NoParser

NextRun ==
    \/ \E r \in RegTypes \cup {"TK2"} : set_regularization_type(r)
    \/ \E mini \in Minimizers : set_minimizer(mini)
    \/ RunBegin
    \/ SolverIterate
    \/ SolverFail
    \/ RunFinish

SpecRun == InitRun /\ [][NextRun]_vars

(***************************************************************************)
(* Statistics                                                              *)
(***************************************************************************)
SumSq(v) == SumTo([k \in 1 .. Len(v) |-> v[k] * v[k]], Len(v))

\* Solver._get_residual_ell2: sum of squares of MA x - My; residuals are
\* held in units of one half
get_residual_ell2_of(MAx, My) ==
    2 * SumSq([k \in 1 .. Len(My) |-> MAx[k] - My[k]])

\* self._get_residual_prior[reg_type]: one half of the squared norm of G x
get_residual_prior_of(reg, x) == SumSq(ApplyOp(RegOperators(reg).B, x))

\* TikhonovSolver.compute_statistics
compute_statistics ==
    /\ Idle
    /\ \E r \in {MA(Eng, get_x0)} :
         /\ residual_ell2' = [kind |-> "value",
                              halves |-> get_residual_ell2_of(r.out, get_M_y.out)]
         /\ filter_oriented_Gaussian' = r.eng.fwd
         /\ filter_adjoint_oriented_Gaussian' = r.eng.adj
    /\ IF reg_type \in {"TK0", "TK1"}
       THEN /\ residual_prior' = [kind |-> "value",
                                  halves |-> get_residual_prior_of(reg_type, get_x0)]
            /\ raised' = None
       ELSE /\ raised' = "KeyError"
            /\ UNCHANGED residual_prior
    /\ UNCHANGED <<objVars, setVars, pc, solver, diag, runStart, callVars, conv, regVars, parVars, ret>>

\* Mutant of residual_query: the stored value is returned without a test
residual_query_unchecked(r) == {[raised |-> None, ret |-> r]}

\* Solver.get_residual_ell2 / get_residual_prior: what the call gives for the
\* stored residual r.  The test "r < 0" on None is True under Python 2, so that
\* ValueError is raised, and raises TypeError under Python 3.
residual_query(r) ==
    IF r = NoneRec
    THEN {[raised |-> e, ret |-> [kind |-> "message", names |-> {"compute_statistics"}]] :
             e \in {"ValueError", "TypeError"}}
    ELSE IF r.halves < 0
    THEN {[raised |-> "ValueError",
           ret |-> [kind |-> "message", names |-> {"compute_statistics"}]]}
    ELSE {[raised |-> None, ret |-> r]}

\* Solver.get_residual_ell2
get_residual_ell2 ==
    /\ Idle
    /\ \E q \in residual_query(residual_ell2) : raised' = q.raised /\ ret' = q.ret
    /\ UNCHANGED <<objVars, engVars, setVars, pc, solver, diag, runStart,
                   statVars, callVars, conv, regVars, parVars>>

\* Solver.get_residual_prior
get_residual_prior ==
    /\ Idle
    /\ \E q \in residual_query(residual_prior) : raised' = q.raised /\ ret' = q.ret
    /\ UNCHANGED <<objVars, engVars, setVars, pc, solver, diag, runStart,
                   statVars, callVars, conv, regVars, parVars>>

\* TikhonovSolver.get_final_cost: residual_ell2 + alpha * residual_prior, here in
\* units of 1/200 (residuals in halves, alpha in hundredths)
final_cost_of(ell2, a, prior) ==
    [kind |-> "value", per200 |-> 100 * ell2.halves + a * prior.halves]

\* TikhonovSolver.get_final_cost
get_final_cost ==
    /\ Idle
    /\ IF residual_ell2 = NoneRec \/ residual_prior = NoneRec
       THEN \* compute_statistics()
            /\ \E r \in {MA(Eng, get_x0)} :
                 /\ residual_ell2' = [kind |-> "value",
                                      halves |-> get_residual_ell2_of(r.out, get_M_y.out)]
                 /\ filter_oriented_Gaussian' = r.eng.fwd
                 /\ filter_adjoint_oriented_Gaussian' = r.eng.adj
            /\ IF reg_type \in {"TK0", "TK1"}
               THEN /\ residual_prior' = [kind |-> "value",
                                          halves |-> get_residual_prior_of(reg_type, get_x0)]
                    /\ raised' = None
                    /\ ret' = final_cost_of(residual_ell2', alpha, residual_prior')
               ELSE /\ raised' = "KeyError"
                    /\ ret' = [kind |-> "message", names |-> {reg_type}]
                    /\ UNCHANGED residual_prior
       ELSE /\ raised' = None
            /\ ret' = final_cost_of(residual_ell2, alpha, residual_prior)
            /\ UNCHANGED <<engVars, statVars>>
    /\ UNCHANGED <<objVars, setVars, pc, solver, diag, runStart, callVars, conv, regVars, parVars>>

(***************************************************************************)
(* Runs, operator calls and statistics on one solver object                *)
(***************************************************************************)
\* a solver with any regularization type (a constructor argument)
InitFrame ==
    /\ \E reg \in RegTypes \cup {"TK2"} : DefaultObject("full_3D", "linear", "lsmr", reg)
    /\ pc = "idle" /\ solver = NoneRec /\ diag = <<>> /\ runStart = NoneRec
    /\ raised = None
    /\ lastMA = NoCall /\ lastAdj = NoCall /\ lastMy = NoCall
    /\ conv = NoneRec
    /\ ret = NoneRec
    /\ NoRegistration /\ NoParser

NextFrame ==
    \/ RunBegin
    \/ SolverIterate
    \/ SolverFail
    \/ RunFinish
    \/ Idle /\ CallMA([k \in 1 .. N_voxels_HR_volume |-> 1])
    \/ Idle /\ CallAadjM([k \in 1 .. N_total_slice_voxels |-> 1])
    \/ Idle /\ CallGetMy
    \/ compute_statistics

SpecFrame == InitFrame /\ [][NextFrame]_vars

(***************************************************************************)
(* Runs, statistics and their getters on one solver object                 *)
(***************************************************************************)
\* a solver with any regularization type and weight (constructor arguments)
InitStat ==
    /\ \E reg \in RegTypes \cup {"TK2"}, a \in AlphaValues :
         Construct(DefaultStacks, MakeHR(CHOOSE size \in HRSizes : TRUE), DefaultCut,
                   "full_3D", [kind |-> "diag", m |-> <<1, 2, 3>>],
                   a, MaxIter, "lsmr", "linear", reg)
    /\ pc = "idle" /\ solver = NoneRec /\ diag = <<>> /\ runStart = NoneRec
    /\ raised = None
    /\ lastMA = NoCall /\ lastAdj = NoCall /\ lastMy = NoCall
    /\ conv = NoneRec
    /\ ret = NoneRec
    /\ NoRegistration /\ NoParser

NextStat ==
    \/ RunBegin
    \/ SolverIterate
    \/ RunFinish
    \/ compute_statistics
    \/ get_residual_ell2
    \/ get_residual_prior
    \/ get_final_cost

SpecStat == InitStat /\ [][NextStat]_vars

(***************************************************************************)
(* Statistics between runs and changes of the settings                     *)
(***************************************************************************)
\* one solver object: runs, set_alpha, set_regularization_type,
\* compute_statistics and get_final_cost in any order
NextCost ==
    \/ NextStat
    \/ \E a \in AlphaValues : set_alpha(a)
    \/ \E r \in RegTypes : set_regularization_type(r)

SpecCost == InitStat /\ [][NextCost]_vars

(***************************************************************************)
(* The cut-off distance of the two engines                                 *)
(***************************************************************************)
\* Mutant of set_alpha_cut: only the forward engine is given the new cut-off
set_alpha_cut_forward_only(cut) ==
    /\ Idle
    /\ alpha_cut' = cut
    /\ filter_oriented_Gaussian' = [filter_oriented_Gaussian EXCEPT !.Alpha = cut]
    /\ UNCHANGED filter_adjoint_oriented_Gaussian
    /\ raised' = None
    /\ ret' = NoneRec
    /\ UNCHANGED <<stacks, HR_volume, deconvolution_mode, predefined_covariance,
                   N_total_slice_voxels, N_voxels_HR_volume, setVars,
                   pc, solver, diag, runStart, statVars, callVars, conv, regVars, parVars>>

\* Solver.set_alpha_cut
set_alpha_cut(cut) ==
    /\ Idle
    /\ alpha_cut' = cut
    /\ filter_oriented_Gaussian' = [filter_oriented_Gaussian EXCEPT !.Alpha = cut]
    /\ filter_adjoint_oriented_Gaussian' =
           [filter_adjoint_oriented_Gaussian EXCEPT !.Alpha = cut]
    /\ raised' = None
    /\ ret' = NoneRec
    /\ UNCHANGED <<stacks, HR_volume, deconvolution_mode, predefined_covariance,
                   N_total_slice_voxels, N_voxels_HR_volume, setVars,
                   pc, solver, diag, runStart, statVars, callVars, conv, regVars, parVars>>

\* Solver.get_alpha_cut
get_alpha_cut ==
    /\ Idle
    /\ ret' = [kind |-> "value", value |-> alpha_cut]
    /\ raised' = None
    /\ UNCHANGED <<objVars, engVars, setVars, pc, solver, diag, runStart, statVars,
                   callVars, conv, regVars, parVars>>

\* cut-off distances a caller sets
CutValues == {1, 2, DefaultCut}

\* the vector of ones
Ones(n) == [k \in 1 .. n |-> 1]

\* a solver on any of the stack lists and modes; set_alpha_cut, get_alpha_cut
\* and the two block operators are called in any order
InitEng == InitOps

NextEng ==
    \/ \E cut \in CutValues : set_alpha_cut(cut)
    \/ get_alpha_cut
    \/ CallMA(Ones(N_voxels_HR_volume))
    \/ CallAadjM(Ones(N_total_slice_voxels))

SpecEng == InitEng /\ [][NextEng]_vars

(***************************************************************************)
(* Runs of solvers constructed with any configuration values               *)
(***************************************************************************)
\* the constructor stores the names it is given without looking at them
InitCfg ==
    /\ \E mode \in {"full_3D", UnknownName}, loss \in {"linear", "huber", UnknownName},
          mini \in {"lsmr", UnknownName}, reg \in {"TK1", "TK2"} :
         DefaultObject(mode, loss, mini, reg)
    /\ pc = "idle" /\ solver = NoneRec /\ diag = <<>> /\ runStart = NoneRec
    /\ raised = None
    /\ lastMA = NoCall /\ lastAdj = NoCall /\ lastMy = NoCall
    /\ conv = NoneRec
    /\ ret = NoneRec
    /\ NoRegistration /\ NoParser

NextCfg ==
    \/ RunBegin
    \/ SolverIterate
    \/ SolverKeyError
    \/ SolverFail
    \/ RunFinish

SpecCfg == InitCfg /\ [][NextCfg]_vars

(***************************************************************************)
(* StackRegistrationBase: the stacks, the settings and their getters.  A   *)
(* Stack object is a record [filename, number_of_slices, copied]; copied   *)
(* tells the object a named constructor made from the caller's object.     *)
(***************************************************************************)
\* the named constructors of Stack that the repository calls
StackConstructors == {"from_stack", "from_filename", "from_sitk_image"}

\* Stack.from_stack: a new Stack object with the contents of the given one
from_stack(stack_to_copy) == [stack_to_copy EXCEPT !.copied = TRUE]

\* Stack objects the caller holds
CallerStacks ==
    { [filename |-> f, number_of_slices |-> n, copied |-> FALSE] :
         f \in {"fetal_brain_1", "reconstruction"}, n \in 1 .. MaxSlices }

\* a str object handed to a caller
Str(v) == [str |-> v]

InitializerTypes == {"identity", "moments", "geometry"}

OptimizerLosses == {"linear", "soft_l1", "huber", "cauchy", "arctan"}

OptimizerMethods == {"trf", "lm", "dogbox"}

\* no call of run_registration is in progress
RegIdle == rpc \in {"idle", "done", "raised"}

\* StackRegistrationBase.__init__: the state after construction
ConstructRegistration(stack_arg, reference_arg, init_type, loss, method, normalize) ==
    /\ self_stack = (IF stack_arg # NoneRec THEN from_stack(stack_arg) ELSE NoneRec)
    /\ N_slices = (IF stack_arg # NoneRec THEN stack_arg.number_of_slices ELSE 0)
    /\ reference = (IF reference_arg # NoneRec THEN from_stack(reference_arg) ELSE NoneRec)
    /\ initializer_type = init_type
    /\ optimizer_loss = loss
    /\ optimizer_method = method
    /\ use_parameter_normalization = normalize
    /\ rpc = "idle" /\ steps = <<>>

\* StackRegistrationBase.set_stack
set_stack(stack_arg) ==
    /\ RegIdle
    /\ self_stack' = from_stack(stack_arg)
    /\ N_slices' = self_stack'.number_of_slices
    /\ raised' = None
    /\ ret' = NoneRec
    /\ UNCHANGED <<reference, initializer_type, optimizer_loss, optimizer_method,
                   use_parameter_normalization, rpc, steps>>
    /\ UNCHANGED <<objVars, engVars, setVars, pc, solver, diag, runStart, statVars,
                   callVars, conv, parVars>>

\* StackRegistrationBase.get_stack
get_stack ==
    /\ RegIdle
    /\ ret' = [kind |-> "value", value |-> self_stack]
    /\ raised' = None
    /\ UNCHANGED <<objVars, engVars, setVars, pc, solver, diag, runStart, statVars,
                   callVars, conv, regVars, parVars>>

\* StackRegistrationBase.set_reference: the attribute from_Stack of the class
\* Stack is looked up first; Stack has no attribute of that name
set_reference(reference_arg) ==
    /\ RegIdle
    /\ IF "from_Stack" \in StackConstructors
       THEN /\ reference' = from_stack(reference_arg)
            /\ raised' = None
            /\ ret' = NoneRec
       ELSE /\ raised' = "AttributeError"
            /\ ret' = [kind |-> "message", names |-> {"from_Stack"}]
            /\ UNCHANGED reference
    /\ UNCHANGED <<self_stack, N_slices, initializer_type, optimizer_loss,
                   optimizer_method, use_parameter_normalization, rpc, steps>>
    /\ UNCHANGED <<objVars, engVars, setVars, pc, solver, diag, runStart, statVars,
                   callVars, conv, parVars>>

\* StackRegistrationBase.get_reference
get_reference ==
    /\ RegIdle
    /\ ret' = [kind |-> "value", value |-> reference]
    /\ raised' = None
    /\ UNCHANGED <<objVars, engVars, setVars, pc, solver, diag, runStart, statVars,
                   callVars, conv, regVars, parVars>>

\* StackRegistrationBase.set_initializer_type
set_initializer_type(v) ==
    /\ RegIdle
    /\ IF v \notin {"identity", "moments", "geometry"}
       THEN /\ raised' = "ValueError"
            /\ ret' = [kind |-> "message", names |-> {"identity", "moments", "geometry"}]
            /\ UNCHANGED initializer_type
       ELSE /\ initializer_type' = v
            /\ raised' = None
            /\ ret' = NoneRec
    /\ UNCHANGED <<self_stack, N_slices, reference, optimizer_loss, optimizer_method,
                   use_parameter_normalization, rpc, steps>>
    /\ UNCHANGED <<objVars, engVars, setVars, pc, solver, diag, runStart, statVars,
                   callVars, conv, parVars>>

\* StackRegistrationBase.get_initializer_type
get_initializer_type ==
    /\ RegIdle
    /\ ret' = [kind |-> "value", value |-> Str(initializer_type)]
    /\ raised' = None
    /\ UNCHANGED <<objVars, engVars, setVars, pc, solver, diag, runStart, statVars,
                   callVars, conv, regVars, parVars>>

\* StackRegistrationBase.set_optimizer_loss: the raise statement evaluates the
\* name ErrorValue, which is not defined
set_optimizer_loss(v) ==
    /\ RegIdle
    /\ IF v \notin {"linear", "soft_l1", "huber", "cauchy", "arctan"}
       THEN /\ raised' = "NameError"
            /\ ret' = [kind |-> "message", names |-> {"ErrorValue"}]
            /\ UNCHANGED optimizer_loss
       ELSE /\ optimizer_loss' = v
            /\ raised' = None
            /\ ret' = NoneRec
    /\ UNCHANGED <<self_stack, N_slices, reference, initializer_type, optimizer_method,
                   use_parameter_normalization, rpc, steps>>
    /\ UNCHANGED <<objVars, engVars, setVars, pc, solver, diag, runStart, statVars,
                   callVars, conv, parVars>>

\* StackRegistrationBase.get_optimizer_loss
get_optimizer_loss ==
    /\ RegIdle
    /\ ret' = [kind |-> "value", value |-> Str(optimizer_loss)]
    /\ raised' = None
    /\ UNCHANGED <<objVars, engVars, setVars, pc, solver, diag, runStart, statVars,
                   callVars, conv, regVars, parVars>>

\* StackRegistrationBase.set_optimizer_method
set_optimizer_method(v) ==
    /\ RegIdle
    /\ IF v \notin {"trf", "lm", "dogbox"}
       THEN /\ raised' = "ValueError"
            /\ ret' = [kind |-> "message", names |-> {"trf", "lm", "dogbox"}]
            /\ UNCHANGED optimizer_method
       ELSE /\ optimizer_method' = v
            /\ raised' = None
            /\ ret' = NoneRec
    /\ UNCHANGED <<self_stack, N_slices, reference, initializer_type, optimizer_loss,
                   use_parameter_normalization, rpc, steps>>
    /\ UNCHANGED <<objVars, engVars, setVars, pc, solver, diag, runStart, statVars,
                   callVars, conv, parVars>>

\* StackRegistrationBase.get_optimizer_method
get_optimizer_method ==
    /\ RegIdle
    /\ ret' = [kind |-> "value", value |-> Str(optimizer_method)]
    /\ raised' = None
    /\ UNCHANGED <<objVars, engVars, setVars, pc, solver, diag, runStart, statVars,
                   callVars, conv, regVars, parVars>>

\* no solver object exists
NoSolver ==
    /\ pc = "unconstructed"
    /\ stacks = <<>> /\ HR_volume = NoneRec
    /\ deconvolution_mode = None /\ predefined_covariance = NoneRec
    /\ alpha_cut = 0
    /\ filter_oriented_Gaussian = NoneRec /\ filter_adjoint_oriented_Gaussian = NoneRec
    /\ N_total_slice_voxels = 0 /\ N_voxels_HR_volume = 0
    /\ alpha = 0 /\ iter_max = 0
    /\ minimizer = None /\ data_loss = None /\ reg_type = None
    /\ residual_ell2 = NoneRec /\ residual_prior = NoneRec
    /\ solver = NoneRec /\ diag = <<>> /\ runStart = NoneRec
    /\ lastMA = NoCall /\ lastAdj = NoCall /\ lastMy = NoCall
    /\ conv = NoneRec

\* a registration object constructed on a stack, with or without a reference
InitReg ==
    /\ \E stack_arg \in CallerStacks, reference_arg \in CallerStacks \cup {NoneRec} :
         /\ stack_arg.filename = "fetal_brain_1"
         /\ reference_arg # NoneRec => reference_arg.filename = "reconstruction"
         /\ ConstructRegistration(stack_arg, reference_arg, "identity", "soft_l1", "trf",
                                  FALSE)
    /\ NoSolver /\ NoParser
    /\ raised = None
    /\ ret = NoneRec

NextReg ==
    \/ \E s \in CallerStacks : set_stack(s)
    \/ get_stack
    \/ \E r \in CallerStacks : set_reference(r)
    \/ get_reference
    \/ \E v \in InitializerTypes \cup {UnknownName} : set_initializer_type(v)
    \/ get_initializer_type
    \/ \E v \in OptimizerLosses \cup {UnknownName} : set_optimizer_loss(v)
    \/ get_optimizer_loss
    \/ \E v \in OptimizerMethods \cup {UnknownName} : set_optimizer_method(v)
    \/ get_optimizer_method

SpecReg == InitReg /\ [][NextReg]_vars

(***************************************************************************)
(* StackRegistrationBase.run_registration, one action per call it makes    *)
(***************************************************************************)
RegUnchangedByRun ==
    /\ UNCHANGED <<self_stack, N_slices, reference, initializer_type, optimizer_method,
                   use_parameter_normalization>>
    /\ UNCHANGED <<objVars, engVars, setVars, pc, solver, diag, runStart, statVars,
                   callVars, conv, parVars, ret>>

\* Mutant of run_registration_begin: the stored loss is left as it is
run_registration_begin_keep ==
    /\ RegIdle
    /\ UNCHANGED optimizer_loss
    /\ steps' = <<>>
    /\ rpc' = "begun"
    /\ raised' = None
    /\ RegUnchangedByRun

\* run_registration, lines 386-393: with method lm a loss other than linear
\* is overwritten and the message is printed
run_registration_begin ==
    /\ RegIdle
    /\ IF optimizer_method \in {"lm"} /\ optimizer_loss \notin {"linear"}
       THEN /\ optimizer_loss' = "linear"
            /\ steps' = <<[call |-> "print", names |-> {"lm", "linear"}]>>
       ELSE /\ UNCHANGED optimizer_loss
            /\ steps' = <<>>
    /\ rpc' = "begun"
    /\ raised' = None
    /\ RegUnchangedByRun

\* run_registration, line 401: self._run_registration_pipeline_initialization()
run_registration_pipeline_initialization ==
    /\ rpc = "begun"
    /\ steps' = Append(steps, [call |-> "_run_registration_pipeline_initialization",
                               loss |-> optimizer_loss])
    /\ rpc' = "initialized"
    /\ UNCHANGED <<optimizer_loss, raised>>
    /\ RegUnchangedByRun

\* run_registration, lines 403-436: the call of least_squares
run_registration_least_squares ==
    /\ rpc = "initialized"
    /\ steps' = Append(steps,
                  [call    |-> "least_squares",
                   method  |-> optimizer_method,
                   loss    |-> optimizer_loss,
                   verbose |-> IF optimizer_method \in {"lm"} THEN 1 ELSE 2,
                   x_scale |-> IF use_parameter_normalization THEN "scale" ELSE "1.0"])
    /\ rpc' = "optimized"
    /\ UNCHANGED <<optimizer_loss, raised>>
    /\ RegUnchangedByRun

\* run_registration, line 453: self._apply_motion_correction(), and the return
run_registration_apply_motion_correction ==
    /\ rpc = "optimized"
    /\ steps' = Append(steps, [call |-> "_apply_motion_correction"])
    /\ rpc' = "done"
    /\ UNCHANGED <<optimizer_loss, raised>>
    /\ RegUnchangedByRun

\* one of the calls run_registration makes raises: the run ends there
run_registration_raise ==
    /\ rpc \in {"begun", "initialized", "optimized"}
    /\ rpc' = "raised"
    /\ raised' = "Exception"
    /\ UNCHANGED <<optimizer_loss, steps>>
    /\ RegUnchangedByRun

\* a step of run_registration
run_registration ==
    \/ run_registration_begin
    \/ run_registration_pipeline_initialization
    \/ run_registration_least_squares
    \/ run_registration_apply_motion_correction
    \/ run_registration_raise

\* a registration object constructed with any loss and method (the
\* constructor stores them as they are given)
InitRunReg ==
    /\ \E stack_arg \in CallerStacks, loss \in OptimizerLosses,
          method \in OptimizerMethods, normalize \in BOOLEAN :
         /\ stack_arg.filename = "fetal_brain_1"
         /\ ConstructRegistration(stack_arg, NoneRec, "identity", loss, method, normalize)
    /\ NoSolver /\ NoParser
    /\ raised = None
    /\ ret = NoneRec

NextRunReg ==
    \/ run_registration_begin
    \/ run_registration_pipeline_initialization
    \/ run_registration_least_squares
    \/ run_registration_apply_motion_correction
    \/ run_registration_raise
    \/ \E v \in OptimizerLosses : set_optimizer_loss(v)
    \/ \E v \in OptimizerMethods : set_optimizer_method(v)

SpecRunReg == InitRunReg /\ [][NextRunReg]_vars

(***************************************************************************)
(* FilenameParser.  A str is the sequence of its characters; the patterns  *)
(* handed over hold none of the characters * ? [ of fnmatch.               *)
(***************************************************************************)
MaxNames == 3      \* names in a directory or in a list of filenames

\* fnmatch.fnmatch(name, pat) on a platform whose file names are case
\* sensitive: * matches any run of characters, ? any one character
RECURSIVE fnmatch(_, _)
fnmatch(name, pat) ==
    IF pat = <<>> THEN name = <<>>
    ELSE IF Head(pat) = "*"
    THEN fnmatch(name, Tail(pat)) \/ (name # <<>> /\ fnmatch(Tail(name), pat))
    ELSE IF name = <<>> THEN FALSE
    ELSE (Head(pat) = "?" \/ Head(pat) = Head(name)) /\ fnmatch(Tail(name), Tail(pat))

\* if type(patterns) is not list: patterns = [patterns]
PatternList(patterns) ==
    IF patterns.type = "list" THEN patterns.value ELSE <<patterns.value>>

\* f.split(".")[0]: the characters before the first dot
RECURSIVE SplitDotFirst(_)
SplitDotFirst(f) ==
    IF f = <<>> \/ Head(f) = "." THEN <<>> ELSE <<Head(f)>> \o SplitDotFirst(Tail(f))

\* FilenameParser.crop_filename_extension, of a list
crop_filename_extension(names) == [k \in 1 .. Len(names) |-> SplitDotFirst(names[k])]

\* ord(c) of the characters that occur
Ord(c) ==
    CASE c = "." -> 46 [] c = "_" -> 95 [] c = "a" -> 97 [] c = "b" -> 98
      [] c = "n" -> 110 [] c = "t" -> 116

\* u < v for two str
RECURSIVE StrLess(_, _)
StrLess(u, v) ==
    IF v = <<>> THEN FALSE
    ELSE IF u = <<>> THEN TRUE
    ELSE IF Head(u) # Head(v) THEN Ord(Head(u)) < Ord(Head(v))
    ELSE StrLess(Tail(u), Tail(v))

\* the sorted list with one more element put in its place
RECURSIVE Insert(_, _)
Insert(sortedNames, f) ==
    IF sortedNames = <<>> THEN <<f>>
    ELSE IF StrLess(f, Head(sortedNames)) THEN <<f>> \o sortedNames
    ELSE <<Head(sortedNames)>> \o Insert(Tail(sortedNames), f)

\* sorted(names)
RECURSIVE sorted(_)
sorted(names) ==
    IF names = <<>> THEN <<>>
    ELSE Insert(sorted(SubSeq(names, 1, Len(names) - 1)), names[Len(names)])

\* [f for f in names if fnmatch.fnmatch(f, pat)]
Matching(names, pat) == SelectSeq(names, LAMBDA f : fnmatch(f, pat))

\* lines 61-62: the names are filtered by one pattern after the other
RECURSIVE MatchingAll(_, _, _)
MatchingAll(names, patterns, i) ==
    IF i > Len(patterns) THEN names
    ELSE MatchingAll(Matching(names, <<"*">> \o patterns[i] \o <<"*">>), patterns, i + 1)

\* FilenameParser.get_filenames_which_match_pattern_in_directory: its value
filenames_which_match(listing, patterns, filename_extension, crop) ==
    LET with_extension ==
            IF filename_extension # None
            THEN Matching(listing, <<"*">> \o filename_extension)
            ELSE listing
        matching == MatchingAll(with_extension, PatternList(patterns), 1)
    IN  sorted(IF crop THEN crop_filename_extension(matching) ELSE matching)

\* FilenameParser.get_filenames_which_match_pattern_in_directory
get_filenames_which_match_pattern_in_directory(patterns, filename_extension, crop) ==
    /\ ret' = [kind |-> "value", object |-> "new list",
               value |-> filenames_which_match(directory, patterns, filename_extension,
                                               crop)]
    /\ raised' = None
    /\ UNCHANGED <<objVars, engVars, setVars, pc, solver, diag, runStart, statVars,
                   callVars, conv, regVars, parVars>>

\* list.remove(f): the first element equal to f is taken out
RECURSIVE RemoveFirst(_, _)
RemoveFirst(names, f) ==
    IF names = <<>> THEN <<>>
    ELSE IF Head(names) = f THEN Tail(names)
    ELSE <<Head(names)>> \o RemoveFirst(Tail(names), f)

\* lines 144-146: the loop over tmp, the copy filenames_tmp, from its k-th element
RECURSIVE ExcludeLoop(_, _, _, _)
ExcludeLoop(names, tmp, k, pattern) ==
    IF k > Len(tmp) THEN names
    ELSE ExcludeLoop(IF fnmatch(tmp[k], <<"*">> \o pattern \o <<"*">>)
                     THEN RemoveFirst(names, tmp[k])
                     ELSE names,
                     tmp, k + 1, pattern)

\* Mutant of ExcludePattern: the loop runs over the list it removes from, so
\* that the element after a removed one is passed over
RECURSIVE ExcludePattern_inplace_from(_, _, _)
ExcludePattern_inplace_from(names, k, pattern) ==
    IF k > Len(names) THEN names
    ELSE ExcludePattern_inplace_from(
            IF fnmatch(names[k], <<"*">> \o pattern \o <<"*">>)
            THEN RemoveFirst(names, names[k])
            ELSE names,
            k + 1, pattern)

ExcludePattern_inplace(names, pattern) == ExcludePattern_inplace_from(names, 1, pattern)

\* lines 143-146: one pattern; filenames_tmp is a copy of the list
ExcludePattern(names, pattern) == ExcludeLoop(names, names, 1, pattern)

\* lines 142-146: the list after the loops of the first n patterns
RECURSIVE ExcludeUpTo(_, _, _)
ExcludeUpTo(names, patterns, n) ==
    IF n = 0 THEN names
    ELSE ExcludePattern(ExcludeUpTo(names, patterns, n - 1), patterns[n])

\* FilenameParser.exclude_filenames_which_match_pattern, called on the list
\* the caller holds: the list is changed and handed back
exclude_filenames_which_match_pattern(patterns) ==
    /\ filenames' = ExcludeUpTo(filenames, PatternList(patterns),
                                Len(PatternList(patterns)))
    /\ filenames_tmp' = IF PatternList(patterns) = <<>> THEN filenames_tmp
                        ELSE ExcludeUpTo(filenames, PatternList(patterns),
                                         Len(PatternList(patterns)) - 1)
    /\ ret' = [kind |-> "value", object |-> "filenames", value |-> filenames']
    /\ raised' = None
    /\ UNCHANGED <<objVars, engVars, setVars, pc, solver, diag, runStart, statVars,
                   callVars, conv, regVars, directory>>

\* file names
Names ==
    { <<"a", ".", "n">>, <<"a", "b", ".", "n">>, <<"b", ".", "t">>,
      <<"a", ".", "b", ".", "n">>, <<"b", "a">> }

\* patterns: a str, or a list of str
PatternArgs ==
    { [type |-> "str", value |-> <<"a">>], [type |-> "str", value |-> <<"b", ".">>],
      [type |-> "list", value |-> <<<<"a">>, <<"b">>>>],
      [type |-> "list", value |-> <<<<"t">>, <<".", "n">>>>],
      [type |-> "list", value |-> <<>>] }

\* lists of at most MaxNames names, repetitions included
NameLists == UNION { [1 .. n -> Names] : n \in 0 .. MaxNames }

\* what os.listdir may return: names of a directory, no name twice, any order
Listings == { l \in NameLists : \A i, j \in 1 .. Len(l) : l[i] = l[j] => i = j }

\* a directory
InitDir ==
    /\ directory \in Listings /\ filenames = <<>> /\ filenames_tmp = <<>>
    /\ NoSolver /\ NoRegistration
    /\ raised = None
    /\ ret = NoneRec

NextDir ==
    \E patterns \in PatternArgs, filename_extension \in {None, <<".", "n">>},
       crop \in BOOLEAN :
        get_filenames_which_match_pattern_in_directory(patterns, filename_extension, crop)

SpecDir == InitDir /\ [][NextDir]_vars

\* a list of filenames
InitList ==
    /\ filenames \in NameLists /\ directory = <<>> /\ filenames_tmp = <<>>
    /\ NoSolver /\ NoRegistration
    /\ raised = None
    /\ ret = NoneRec

NextList == \E patterns \in PatternArgs : exclude_filenames_which_match_pattern(patterns)

SpecList == InitList /\ [][NextList]_vars

(***************************************************************************)
(* Reference quantities the properties are stated with                     *)
(***************************************************************************)
\* all slices as <<stack index, slice index>>, stack ascending, then slice ascending
RECURSIVE SlicesUpTo(_)
SlicesUpTo(i) ==
    IF i = 0 THEN <<>>
    ELSE SlicesUpTo(i - 1) \o [j \in 1 .. Len(stacks[i].slices) |-> <<i, j>>]

AllSlices == SlicesUpTo(Len(stacks))

SliceAt(k) == stacks[AllSlices[k][1]].slices[AllSlices[k][2]]

\* N_k: slice k's own voxel count
OwnCount(k) == Prod3(SliceAt(k).itk.size)

RECURSIVE BlockStart(_)
BlockStart(k) == IF k = 1 THEN 0 ELSE BlockStart(k - 1) + OwnCount(k - 1)

\* position and block of each slice as an operator call went through them
Layout(log) ==
    [k \in 1 .. Len(log) |-> <<log[k].i, log[k].j, log[k].i_min, log[k].i_max>>]

\* the covariance derived for a slice under the active deconvolution mode
DerivedCovariance(slice) ==
    CASE deconvolution_mode = "full_3D" ->
            PSF_HR_volume_coordinates(slice, HR_volume)
      [] deconvolution_mode = "only_in_plane" ->
            PSF_from_direction_and_spacing(
                slice.itk.geom.direction,
                <<slice.itk.geom.spacing[1], slice.itk.geom.spacing[2], 1>>,
                HR_volume)
      [] deconvolution_mode = "predefined_covariance" ->
            PSF_from_covariances(slice, HR_volume, predefined_covariance)

\* A_k* (M_k z_k) as a flat HR vector, with the engine set up for slice k
RefContribution(z, k) ==
    flatten(GetArrayFromImage(
        AdjointResample(
            [Covariance |-> DerivedCovariance(SliceAt(k)), Output |-> Grid(HR_volume),
             Alpha |-> alpha_cut, DefaultPixelValue |-> 0],
            Mk(get_itk_image_from_array_vec(
                   SubSeq(z, BlockStart(k) + 1, BlockStart(k) + OwnCount(k)),
                   SliceAt(k).itk),
               SliceAt(k)))))

RECURSIVE RefAdjointSum(_, _)
RefAdjointSum(z, k) ==
    IF k = 0 THEN Zeros(Prod3(HR_volume.size))
    ELSE VecAdd(RefAdjointSum(z, k - 1), RefContribution(z, k))

\* offset in a slice's block of the voxel with ITK index p
BlockOffset(p, size) == RavelIndex(<<p[3], p[2], p[1]>>, Rev3(size))

(***************************************************************************)
(* Properties of the block operators                                       *)
(***************************************************************************)
\* C1: adjointness.  For the x given to forward_full and the z given to
\* adjoint_full, <forward_full(x), z> = <x, adjoint_full(z)>.
C1_Adjointness ==
    (lastMA.called /\ lastAdj.called) =>
        /\ lastMA.err = None /\ lastAdj.err = None
        /\ Dot(lastMA.out, lastAdj.z) = Dot(lastMA.x, lastAdj.out)

C1_Witness ==
    /\ lastMA.called /\ lastAdj.called
    /\ Len(AllSlices) >= 2
    /\ Dot(lastMA.out, lastAdj.z) > 0
    /\ \E k \in 1 .. Len(AllSlices) : \E p \in Idx3(SliceAt(k).itk.size) :
          SliceAt(k).itk_mask.pix[p] = 0

\* C2: observation_vector, forward_full and adjoint_full go through the slices
\* in the same order, stack index ascending and then slice index ascending,
\* and give every slice the same index range.
C2_SameOrderAndOffsets ==
    /\ (lastMy.called /\ lastMA.called) => Layout(lastMy.log) = Layout(lastMA.log)
    /\ (lastMA.called /\ lastAdj.called) => Layout(lastMA.log) = Layout(lastAdj.log)
    /\ (lastMy.called /\ lastAdj.called) => Layout(lastMy.log) = Layout(lastAdj.log)
    /\ \A call \in {lastMy, lastMA, lastAdj} :
          call.called =>
             /\ Len(call.log) = Len(AllSlices)
             /\ \A k \in 1 .. Len(call.log) :
                   <<call.log[k].i, call.log[k].j>> = AllSlices[k]

C2_Witness ==
    /\ lastMy.called /\ lastMA.called /\ lastAdj.called
    /\ Len(stacks) >= 2
    /\ \E k \in 1 .. Len(AllSlices) : AllSlices[k][2] >= 2
    /\ \E k \in 1 .. Len(AllSlices) : OwnCount(k) # OwnCount(1)

C4_AdjointIsSum ==
    lastAdj.called =>
        /\ lastAdj.err = None
        /\ lastAdj.out = RefAdjointSum(lastAdj.z, Len(AllSlices))

\* two slices contribute to the same HR voxel
C4_Witness ==
    /\ lastAdj.called
    /\ \E k1, k2 \in 1 .. Len(AllSlices) : \E n \in 1 .. Prod3(HR_volume.size) :
          /\ k1 < k2
          /\ RefContribution(lastAdj.z, k1)[n] > 0
          /\ RefContribution(lastAdj.z, k2)[n] > 0

\* C5: mask exclusivity.  In forward_full(x) and in observation_vector(), the
\* entry of a voxel of slice k where the mask of slice k is 0 is 0.
C5_MaskExclusivity ==
    \A call \in {lastMy, lastMA} :
       call.called =>
          \A k \in 1 .. Len(AllSlices) : \A p \in Idx3(SliceAt(k).itk.size) :
             SliceAt(k).itk_mask.pix[p] = 0 =>
                call.out[BlockStart(k) + BlockOffset(p, SliceAt(k).itk.size) + 1] = 0

\* a masked voxel, and an unmasked voxel of the same call that is not zero
C5_Witness ==
    /\ lastMy.called /\ lastMA.called
    /\ \E k \in 1 .. Len(AllSlices) : \E p \in Idx3(SliceAt(k).itk.size) :
          SliceAt(k).itk_mask.pix[p] = 0
    /\ \E n \in 1 .. Len(lastMA.out) : lastMA.out[n] > 0
    /\ \E n \in 1 .. Len(lastMy.out) : lastMy.out[n] > 0

\* C6: when the forward or the adjoint resampling is invoked for slice k, the
\* engine's covariance is the one derived for slice k under the active mode,
\* and the forward engine's output geometry is that of slice k.
C6_EngineReconfigured ==
    /\ lastMA.called =>
          \A k \in 1 .. Len(lastMA.log) :
             LET slice == stacks[lastMA.log[k].i].slices[lastMA.log[k].j]
             IN  /\ lastMA.log[k].used.Covariance = DerivedCovariance(slice)
                 /\ lastMA.log[k].used.Output = Grid(slice.itk)
    /\ lastAdj.called =>
          \A k \in 1 .. Len(lastAdj.log) :
             LET slice == stacks[lastAdj.log[k].i].slices[lastAdj.log[k].j]
             IN  lastAdj.log[k].used.Covariance = DerivedCovariance(slice)

\* both operators were called, on slices whose settings differ
C6_Witness ==
    /\ lastMA.called /\ lastAdj.called
    /\ Len(lastMA.log) >= 2 /\ Len(lastAdj.log) >= 2
    /\ lastMA.log[1].used.Covariance # lastMA.log[Len(lastMA.log)].used.Covariance
    /\ lastMA.log[1].used.Output # lastMA.log[2].used.Output

\* C7: the HR volume is changed only by the step that ends a successful
\* solve (the numerical solver returned); no call of _MA, _A_adj_M, _get_M_y
\* or compute_statistics and no iteration of the numerical solver changes it,
\* and after a run that raised it is what it was when the run began.
C7_HRChangedOnlyAtEnd ==
    /\ [][ /\ (HR_volume' # HR_volume => (pc = "running" /\ pc' = "done"))
           /\ (pc' = "raised" => HR_volume' = HR_volume) ]_vars
    /\ [](pc \in {"running", "raised"} => HR_volume = runStart.HR_volume)

\* C7 witness: a run raised after the numerical solver had moved away from
\* the initial value, on an object whose operators and statistics were called
C7_Witness ==
    /\ pc = "raised" /\ raised = "SolverError"
    /\ solver.iter > 0
    /\ solver.x # flatten(GetArrayFromImage(HR_volume))
    /\ lastMA.called /\ lastAdj.called /\ lastMy.called
    /\ residual_ell2 # NoneRec
    /\ HR_volume # MakeHR(HR_volume.size)

\* C8: converting a flat vector to an image over the reference grid and
\* flattening the image's array again gives the vector back, every element at
\* its index; the image has the size and the geometry of the reference.
C8_RoundTrip ==
    (conv # NoneRec /\ conv.stage = "back") =>
        /\ Len(conv.back) = Len(conv.x)
        /\ \A k \in 1 .. Len(conv.x) : conv.back[k] = conv.x[k]
        /\ conv.image.size = conv.ref.size
        /\ conv.image.geom = conv.ref.geom

\* C8 witness: a vector of pairwise distinct entries went through a reference
\* whose first and last axes differ in length
C8_Witness ==
    /\ conv # NoneRec /\ conv.stage = "back"
    /\ conv.ref.size[1] # conv.ref.size[3]
    /\ conv.ref.size[2] > 1
    /\ conv.x = RampVec(Prod3(conv.ref.size))

\* C9: the regularization operator and its adjoint a run with reg_type TK0
\* hands to the numerical solver return every flat HR vector unchanged, same
\* length and same order.
C9_TK0Identity ==
    (pc \in {"running", "done"} /\ runStart.reg_type = "TK0") =>
        \A x \in TestVecs(N_voxels_HR_volume) \cup {RampVec(N_voxels_HR_volume)} :
            /\ ApplyOp(solver.B, x) = x
            /\ ApplyOp(solver.B_adj, x) = x

\* C9 witness: the numerical solver of a TK0 run is iterating
C9_Witness ==
    /\ pc = "running" /\ runStart.reg_type = "TK0"
    /\ solver.iter > 0
    /\ N_voxels_HR_volume > 1

C11_SettersReject ==
    /\ [][ /\ \A r \in {"TK2", UnknownName} :
                set_regularization_type(r) => (raised' # None /\ reg_type' = reg_type)
           /\ set_minimizer(UnknownName) => (raised' # None /\ minimizer' = minimizer)
         ]_vars
    /\ [](reg_type \in RegTypes /\ minimizer \in Minimizers)

\* C12: set_data_loss with a value outside the five loss functions raises
\* ValueError, the message names the five, and no setting changes.
C12_InvalidLossRejected ==
    [][ set_data_loss(UnknownName) =>
            /\ raised' = "ValueError"
            /\ ret'.names = DataLosses
            /\ UNCHANGED setVars ]_vars

\* C12 witness: the call was refused on a solver whose settings had been set
C12_Witness ==
    /\ raised = "ValueError"
    /\ ret # NoneRec /\ ret.kind = "message"
    /\ minimizer = "lsqr" /\ reg_type = "TK0" /\ alpha = 150

\* C13: for each of the five loss functions v, set_data_loss(v) returns
\* without an exception and the stored data loss is v afterwards.
C13_SetDataLoss ==
    [][ \A v \in DataLosses :
            set_data_loss(v) => (raised' = None /\ data_loss' = v) ]_vars

\* C14: get_residual_ell2 and get_residual_prior raise and hand no value to
\* the caller while the residual they ask for has not been computed, and return
\* the stored residual once it was.
C14_ResidualQueries ==
    [][ /\ get_residual_ell2 =>
             IF residual_ell2 = NoneRec
             THEN raised' # None /\ ret'.kind # "value"
             ELSE raised' = None /\ ret' = residual_ell2 /\ ret'.halves >= 0
        /\ get_residual_prior =>
             IF residual_prior = NoneRec
             THEN raised' # None /\ ret'.kind # "value"
             ELSE raised' = None /\ ret' = residual_prior /\ ret'.halves >= 0 ]_vars

\* C14 witness: after a run whose statistics were not computed, a query of
\* the residual was refused
C14_Witness ==
    /\ pc = "done"
    /\ residual_ell2 = NoneRec
    /\ raised = "ValueError"
    /\ ret.kind = "message"

\* C18: get_final_cost returns one half of the squared norm of A x - b plus
\* alpha times one half of the squared norm of G x, x being the current
\* reconstruction, and computes the residuals when they are missing.
C18_FinalCost ==
    [][ (get_final_cost /\ reg_type \in RegTypes) =>
            /\ raised' = None
            /\ ret'.kind = "value"
            /\ ret'.per200 =
                  100 * SumSq([k \in 1 .. N_total_slice_voxels |->
                                 MA(Eng, get_x0).out[k] - get_M_y.out[k]])
                  + alpha * SumSq(ApplyOp(RegOperators(reg_type).B, get_x0))
            /\ residual_ell2' # NoneRec /\ residual_prior' # NoneRec ]_vars

\* C15: the constructor refuses an empty list of stacks: every solver object
\* that exists has at least one stack.
C15_NoEmptySolver ==
    /\ [][ \A cov \in CovInputs, mode \in DeconvolutionModes :
             New(<<>>, MakeHR(CHOOSE size \in HRSizes : TRUE), DefaultCut, mode, cov,
                 2, MaxIter, "lsmr", "linear", "TK1")
             => (raised' # None /\ pc' = "unconstructed") ]_vars
    /\ [](pc # "unconstructed" => N_stacks > 0)

\* the 3x3 matrix a covariance argument stands for
MatrixOf(cov) ==
    IF cov.kind = "diag"
    THEN <<<<cov.m[1], 0, 0>>, <<0, cov.m[2], 0>>, <<0, 0, cov.m[3]>>>>
    ELSE cov.m

\* C20: 3 diagonal entries are stored as the 3x3 diagonal matrix of these
\* entries and a 3x3 matrix is stored as it is, by the constructor and by
\* set_predefined_covariance alike; get_predefined_covariance returns the
\* stored matrix.
C20_PredefinedCovariance ==
    [][ /\ \A cov \in CovInputs :
             /\ set_predefined_covariance(cov) =>
                   (predefined_covariance'.kind = "matrix"
                    /\ predefined_covariance'.m = MatrixOf(cov))
             /\ \A stks \in NewStackLists, mode \in DeconvolutionModes :
                   New(stks, MakeHR(CHOOSE size \in HRSizes : TRUE), DefaultCut, mode,
                       cov, 2, MaxIter, "lsmr", "linear", "TK1") =>
                   (predefined_covariance'.kind = "matrix"
                    /\ predefined_covariance'.m = MatrixOf(cov))
        /\ get_predefined_covariance =>
             (ret'.value = predefined_covariance /\ UNCHANGED predefined_covariance)
      ]_vars

\* C20 witness: the setter replaced a covariance given to the constructor by
\* one given as diagonal entries, the getter returned it and the operators
\* ran with it
C20_Witness ==
    /\ pc = "idle"
    /\ deconvolution_mode = "predefined_covariance"
    /\ predefined_covariance.m = <<<<2, 0, 0>>, <<0, 2, 0>>, <<0, 0, 1>>>>
    /\ ret # NoneRec /\ ret.kind = "value" /\ ret.value = predefined_covariance
    /\ lastMA.called /\ N_stacks > 0
    /\ filter_oriented_Gaussian.Covariance.param = predefined_covariance

\* a configuration with a value that is none of the documented ones
InvalidConfiguration(c) ==
    \/ c.reg_type \notin RegTypes
    \/ c.deconvolution_mode \notin DeconvolutionModes
    \/ c.data_loss \notin DataLosses
    \/ c.minimizer \notin Minimizers

\* C16: a run started with an invalid regularization type, deconvolution
\* mode, data loss or minimizer never invokes the resampling engines and does
\* not end as a successful run.
C16_ConfigErrorsFirst ==
    (runStart # NoneRec /\ InvalidConfiguration(runStart)) =>
        /\ pc # "done"
        /\ solver # NoneRec => ~solver.invoked

\* C17: a run that ends without an exception has written the solution back
\* and hands the caller a status, MAX_ITER_REACHED when the iteration budget
\* was used up and CONVERGED otherwise; a run that raises is FAILED.
C17_TerminalStatus ==
    [][ (pc = "running" /\ pc' = "done") =>
            /\ raised' = None
            /\ HR_volume' = get_itk_image_from_array_vec(solver.x, HR_volume)
            /\ ret'.kind = "status"
            /\ ret'.value = (IF solver'.stop = "max_iter"
                             THEN "MAX_ITER_REACHED" ELSE "CONVERGED") ]_vars

\* str occurs in the string as a run of consecutive pieces
Contains(string, str) ==
    \E k \in 0 .. Len(string) - Len(str) :
        \A n \in 1 .. Len(str) : string[k + n] = str[n]

\* the decimal digits of alpha (hundredths) as the filename shows them
AlphaShown ==
    StrInt(alpha \div 100) \o <<"p">>
    \o (IF alpha % 10 = 0 THEN StrInt((alpha % 100) \div 10)
        ELSE StrInt((alpha % 100) \div 10) \o StrInt(alpha % 10))

\* C19 as stated: for every configuration the filename shows the stack
\* count, the regularization type, the minimizer, the data loss, alpha and
\* the iteration cap, has no dot, and no setting changes.
C19_FilenameEncodesAll ==
    [][ \A prefix \in Prefixes : get_setting_specific_filename(prefix) =>
            /\ Contains(ret'.value, <<"stacks">> \o StrInt(N_stacks))
            /\ Contains(ret'.value, <<"_", reg_type>>)
            /\ Contains(ret'.value, <<"_", minimizer>>)
            /\ Contains(ret'.value, <<"_", data_loss>>)
            /\ Contains(ret'.value, <<"_alpha">> \o AlphaShown)
            /\ Contains(ret'.value, <<"_itermax">> \o StrInt(iter_max))
            /\ \A k \in 1 .. Len(ret'.value) : ret'.value[k] # "."
            /\ UNCHANGED <<objVars, engVars, setVars, statVars>> ]_vars

\* C19 (amended): the filename shows the stack count, the minimizer, alpha
\* and the iteration cap for every configuration, the regularization type
\* exactly when alpha > 0 and the data loss exactly when it is not linear or
\* the minimizer is L-BFGS-B; it has no dot and no setting changes.
C19_FilenameEncodes ==
    [][ \A prefix \in Prefixes : get_setting_specific_filename(prefix) =>
            /\ Contains(ret'.value, <<"stacks">> \o StrInt(N_stacks))
            /\ (alpha > 0 => Contains(ret'.value, <<"_", reg_type, "_", minimizer>>))
            /\ (alpha = 0 =>
                  Contains(ret'.value, <<"stacks">> \o StrInt(N_stacks) \o <<"_", minimizer>>))
            /\ IF data_loss # "linear" \/ minimizer = "L-BFGS-B"
               THEN Contains(ret'.value, <<"_", minimizer, "_", data_loss>>)
               ELSE Contains(ret'.value, <<"_", minimizer, "_alpha">>)
            /\ Contains(ret'.value, <<"_alpha">> \o AlphaShown \o <<"_itermax">>
                                      \o StrInt(iter_max))
            /\ \A k \in 1 .. Len(ret'.value) : ret'.value[k] # "."
            /\ UNCHANGED <<objVars, engVars, setVars, statVars>> ]_vars

\* C19 witness: a filename for a prefix with a dot, alpha = 1.5 and the
\* huber loss, whose gamma has a dot as well
C19_Witness ==
    /\ ret # NoneRec /\ ret.kind = "value"
    /\ alpha = 150 /\ data_loss = "huber" /\ reg_type = "TK0" /\ minimizer = "lsqr"
    /\ ret.value = <<"v", "1", "p", "0", "_", "stacks">> \o StrInt(N_stacks)
                   \o <<"_", "TK0", "_", "lsqr", "_", "huber", "1", "p", "3", "4", "5",
                        "_alpha", "1", "p", "5", "_itermax">> \o StrInt(iter_max)

C22_InPlaneCovariance ==
    /\ [](deconvolution_mode = "only_in_plane" =>
            /\ lastMA.called =>
                 \A k \in 1 .. Len(lastMA.log) :
                    LET slice == stacks[lastMA.log[k].i].slices[lastMA.log[k].j]
                    IN  lastMA.log[k].used.Covariance =
                          [kind |-> "spacing",
                           direction |-> slice.itk.geom.direction,
                           param |-> <<slice.itk.geom.spacing[1],
                                       slice.itk.geom.spacing[2], 1>>,
                           hr_direction |-> HR_volume.geom.direction]
            /\ lastAdj.called =>
                 \A k \in 1 .. Len(lastAdj.log) :
                    LET slice == stacks[lastAdj.log[k].i].slices[lastAdj.log[k].j]
                    IN  lastAdj.log[k].used.Covariance =
                          [kind |-> "spacing",
                           direction |-> slice.itk.geom.direction,
                           param |-> <<slice.itk.geom.spacing[1],
                                       slice.itk.geom.spacing[2], 1>>,
                           hr_direction |-> HR_volume.geom.direction])
    /\ [][deconvolution_mode = "only_in_plane" => stacks' = stacks]_vars

\* C22 witness: both operators ran in mode only_in_plane over slices whose
\* own through-plane spacing is a physical one, and the engines are left with
\* the in-plane covariance of the last slice
C22_Witness ==
    /\ deconvolution_mode = "only_in_plane"
    /\ lastMA.called /\ lastAdj.called
    /\ Len(lastMA.log) >= 2 /\ Len(lastAdj.log) >= 2
    /\ \A k \in 1 .. Len(AllSlices) : SliceAt(k).itk.geom.spacing[3] >= SpacingUnit
    /\ filter_oriented_Gaussian.Covariance.param[3] = 1
    /\ filter_adjoint_oriented_Gaussian.Covariance.param[3] = 1

(***************************************************************************)
(* Properties of the registration object                                   *)
(***************************************************************************)
\* C23: set_initializer_type, set_optimizer_loss and set_optimizer_method
\* reject a value outside their set with a ValueError that carries a message,
\* and the stored value stays; a value of the set is stored, and the matching
\* getter returns the stored value.
C23_RegistrationSettersReject ==
    [][ /\ \A v \in InitializerTypes \cup {UnknownName} :
              set_initializer_type(v) =>
                 IF v \in {"identity", "moments", "geometry"}
                 THEN raised' = None /\ initializer_type' = v
                 ELSE /\ raised' = "ValueError" /\ ret'.kind = "message"
                      /\ initializer_type' = initializer_type
        /\ \A v \in OptimizerLosses \cup {UnknownName} :
              set_optimizer_loss(v) =>
                 IF v \in {"linear", "soft_l1", "huber", "cauchy", "arctan"}
                 THEN raised' = None /\ optimizer_loss' = v
                 ELSE /\ raised' = "ValueError" /\ ret'.kind = "message"
                      /\ optimizer_loss' = optimizer_loss
        /\ \A v \in OptimizerMethods \cup {UnknownName} :
              set_optimizer_method(v) =>
                 IF v \in {"trf", "lm", "dogbox"}
                 THEN raised' = None /\ optimizer_method' = v
                 ELSE /\ raised' = "ValueError" /\ ret'.kind = "message"
                      /\ optimizer_method' = optimizer_method
        /\ get_initializer_type => ret'.value.str = initializer_type
        /\ get_optimizer_loss => ret'.value.str = optimizer_loss
        /\ get_optimizer_method => ret'.value.str = optimizer_method
      ]_vars

\* C24: set_reference(r) returns without an exception and get_reference then
\* returns a copy of r, as set_stack(s) makes get_stack return a copy of s and
\* sets the slice count to that of s.
C24_SetReference ==
    [][ /\ \A r \in CallerStacks :
              set_reference(r) =>
                 /\ raised' = None
                 /\ reference' = [r EXCEPT !.copied = TRUE]
        /\ \A s \in CallerStacks :
              set_stack(s) =>
                 /\ raised' = None
                 /\ self_stack' = [s EXCEPT !.copied = TRUE]
                 /\ N_slices' = s.number_of_slices
        /\ get_reference => (raised' = None /\ ret'.value = reference)
        /\ get_stack => (raised' = None /\ ret'.value = self_stack)
      ]_vars

(***************************************************************************)
(* Properties of the filename parser                                       *)
(***************************************************************************)
\* the name ends with the extension
EndsWith(name, extension) ==
    /\ Len(name) >= Len(extension)
    /\ SubSeq(name, Len(name) - Len(extension) + 1, Len(name)) = extension

\* the name without its filename extension: without the extension asked for
\* when there is one, else without everything from its first dot on
WithoutExtension(name, extension) ==
    IF extension # None
    THEN (IF EndsWith(name, extension)
          THEN SubSeq(name, 1, Len(name) - Len(extension)) ELSE name)
    ELSE IF \E k \in 1 .. Len(name) : name[k] = "."
    THEN SubSeq(name, 1, (CHOOSE k \in 1 .. Len(name) :
                             name[k] = "." /\ \A j \in 1 .. k - 1 : name[j] # ".") - 1)
    ELSE name

\* how often a name occurs in a list
Count(names, f) == Cardinality({k \in 1 .. Len(names) : names[k] = f})

\* the list is in ascending order
Ascending(names) ==
    \A i, j \in 1 .. Len(names) : i < j => ~StrLess(names[j], names[i])

\* the names of the directory that end with the extension (when one is given)
\* and hold every pattern
Wanted(patterns, extension) ==
    { f \in {directory[k] : k \in 1 .. Len(directory)} :
         /\ extension # None => EndsWith(f, extension)
         /\ \A i \in 1 .. Len(PatternList(patterns)) :
               Contains(f, PatternList(patterns)[i]) }

\* C25: get_filenames_which_match_pattern_in_directory returns, in ascending
\* order, exactly the names of the directory that end with the extension (when
\* one is given) and hold every pattern, a single str counting as a list of
\* one, each without its filename extension when crop_filename_extension is
\* true.
C25_MatchingFilenames ==
    [][ \A patterns \in PatternArgs, extension \in {None, <<".", "n">>}, crop \in BOOLEAN :
          get_filenames_which_match_pattern_in_directory(patterns, extension, crop) =>
             /\ Ascending(ret'.value)
             /\ Len(ret'.value) = Cardinality(Wanted(patterns, extension))
             /\ \A f \in Wanted(patterns, extension) :
                   LET shown == IF crop THEN WithoutExtension(f, extension) ELSE f
                   IN  Count(ret'.value, shown) =
                          Cardinality({g \in Wanted(patterns, extension) :
                                          (IF crop THEN WithoutExtension(g, extension)
                                           ELSE g) = shown})
      ]_vars

\* C26: exclude_filenames_which_match_pattern hands back the list it was
\* given, changed in place: no name that holds one of the patterns is left,
\* and every other name is there as often as before and in the same order.
C26_ExcludeMatching ==
    [][ \A patterns \in PatternArgs :
          exclude_filenames_which_match_pattern(patterns) =>
             /\ ret'.object = "filenames" /\ ret'.value = filenames'
             /\ filenames' =
                   SelectSeq(filenames,
                             LAMBDA f : \A i \in 1 .. Len(PatternList(patterns)) :
                                           ~Contains(f, PatternList(patterns)[i]))
             /\ \A k \in 1 .. Len(filenames') :
                   \A i \in 1 .. Len(PatternList(patterns)) :
                      ~Contains(filenames'[k], PatternList(patterns)[i])
      ]_vars

\* C26 witness: the last loop ran over a list that held the same matching
\* name twice, one after the other, and took both out, and names are left
C26_Witness ==
    /\ ret # NoneRec /\ ret.object = "filenames"
    /\ Len(filenames_tmp) = MaxNames
    /\ filenames_tmp[1] = filenames_tmp[2]
    /\ filenames_tmp[1] \notin {filenames[k] : k \in 1 .. Len(filenames)}
    /\ filenames # <<>>

(***************************************************************************)
(* The two engines carry the same parameters                               *)
(***************************************************************************)
\* the entry of slice j of stack i in the log of an operator call
EntryOf(log, i, j) == CHOOSE e \in {log[k] : k \in 1 .. Len(log)} : e.i = i /\ e.j = j

\* C28: after the constructor and after any set_alpha_cut and operator calls
\* both engines have the cut-off get_alpha_cut returns and the same
\* covariance, the adjoint engine's output geometry is the HR volume's, and the
\* adjoint call for a slice uses the covariance and, under the same
\* alpha_cut, the cut-off of the forward call for that slice.
C28_EnginesAgree ==
    /\ [](/\ filter_oriented_Gaussian.Alpha = alpha_cut
          /\ filter_adjoint_oriented_Gaussian.Alpha = alpha_cut
          /\ filter_oriented_Gaussian.Covariance =
                filter_adjoint_oriented_Gaussian.Covariance
          /\ filter_adjoint_oriented_Gaussian.Output = Grid(HR_volume)
          /\ lastAdj.called =>
                \A k \in 1 .. Len(lastAdj.log) :
                   lastAdj.log[k].used.Output = Grid(HR_volume)
          /\ (lastMA.called /\ lastAdj.called) =>
                /\ Len(lastMA.log) = Len(lastAdj.log)
                /\ \A k \in 1 .. Len(lastAdj.log) :
                      LET a == lastAdj.log[k]
                          f == EntryOf(lastMA.log, a.i, a.j)
                      IN  a.used.Covariance = f.used.Covariance)
    /\ [][ /\ get_alpha_cut =>
               /\ ret'.value = filter_oriented_Gaussian.Alpha
               /\ ret'.value = filter_adjoint_oriented_Gaussian.Alpha
           /\ CallMA(Ones(N_voxels_HR_volume)) =>
               \A k \in 1 .. Len(lastMA'.log) : lastMA'.log[k].used.Alpha = alpha_cut
           /\ CallAadjM(Ones(N_total_slice_voxels)) =>
               \A k \in 1 .. Len(lastAdj'.log) : lastAdj'.log[k].used.Alpha = alpha_cut
         ]_vars

\* C28 witness: the cut-off was set to another value than the constructor's,
\* then both operators ran over several slices of differing covariance
C28_Witness ==
    /\ alpha_cut # DefaultCut
    /\ lastMA.called /\ lastAdj.called
    /\ Len(lastMA.log) >= 2 /\ Len(lastAdj.log) >= 2
    /\ lastMA.log[1].used.Alpha = alpha_cut /\ lastAdj.log[1].used.Alpha = alpha_cut
    /\ \E k \in 2 .. Len(lastAdj.log) :
          lastAdj.log[k].used.Covariance # lastAdj.log[1].used.Covariance
    /\ filter_oriented_Gaussian.Covariance # NoneRec

(***************************************************************************)
(* Residuals kept between calls                                            *)
(***************************************************************************)
\* C29: get_final_cost returns the cost of the current reconstruction under
\* the current alpha and regularization type: the residuals it adds up are
\* the ones compute_statistics would compute now, whatever run, setter or
\* statistics call came before.
C29_CostIsCurrent ==
    [][ (get_final_cost /\ raised' = None) =>
            ret' = final_cost_of(
                      [kind |-> "value",
                       halves |-> get_residual_ell2_of(MA(Eng, get_x0).out, get_M_y.out)],
                      alpha,
                      [kind |-> "value",
                       halves |-> get_residual_prior_of(reg_type, get_x0)]) ]_vars

(***************************************************************************)
(* run_registration                                                        *)
(***************************************************************************)
\* the calls run_registration has made so far, its printed message left out
CallsMade == SelectSeq(steps, LAMBDA e : e.call # "print")

RunOrder == <<"_run_registration_pipeline_initialization", "least_squares",
              "_apply_motion_correction">>

\* C30: run_registration never calls least_squares with method lm and a loss
\* other than linear: with lm the stored loss is linear from before the
\* pipeline initialization to the end of the run; with trf or dogbox the run
\* leaves the stored loss as it is; and the calls are made in the order
\* pipeline initialization, optimization, motion correction.
C30_LmRunsLinear ==
    /\ [](/\ \A k \in 1 .. Len(CallsMade) :
                /\ CallsMade[k].call = RunOrder[k]
                /\ k = 2 => ~(CallsMade[k].method = "lm" /\ CallsMade[k].loss # "linear")
          /\ Len(CallsMade) <= 3
          /\ rpc = "begun" => Len(CallsMade) = 0
          /\ rpc = "initialized" => Len(CallsMade) = 1
          /\ rpc = "optimized" => Len(CallsMade) = 2
          /\ (rpc \in {"begun", "initialized", "optimized"} /\ optimizer_method = "lm")
                => optimizer_loss = "linear")
    /\ [][ /\ run_registration =>
                /\ optimizer_method' = optimizer_method
                /\ optimizer_method = "lm" => optimizer_loss' = "linear"
                /\ optimizer_method \in {"trf", "dogbox"} =>
                      optimizer_loss' = optimizer_loss
                /\ rpc' = "done" => Len(CallsMade') = 3
           /\ (run_registration_pipeline_initialization /\ optimizer_method = "lm") =>
                optimizer_loss = "linear" /\ CallsMade'[1].loss = "linear"
           /\ run_registration_least_squares =>
                /\ CallsMade'[2].method = optimizer_method
                /\ CallsMade'[2].loss = optimizer_loss
         ]_vars

\* C30 witness: a run with method lm on a stored loss other than linear has
\* printed its message, made its three calls and ended with the loss linear
C30_Witness ==
    /\ rpc = "done" /\ optimizer_method = "lm" /\ optimizer_loss = "linear"
    /\ steps # <<>> /\ steps[1].call = "print"
    /\ Len(CallsMade) = 3
    /\ CallsMade[2].method = "lm" /\ CallsMade[2].loss = "linear"

=============================================================================
